---------------------------- MODULE Spec2Model ----------------------------
(***************************************************************************)
(* A model of the RISC-V 64 back end of the runtime: the macro assembler   *)
(* (constant materialisation, handle-scope helpers, branch relaxation and  *)
(* final branch emission) and the managed / JNI calling conventions.       *)
(*                                                                         *)
(* 64-bit machine values are bit vectors (tuples of 64 bits), so that no    *)
(* arithmetic of the model depends on the width of the checker's integers. *)
(* Instructions are kept as the bit fields the emitters pack               *)
(* into the instruction word and are executed by decoding those fields.    *)
(***************************************************************************)
EXTENDS Integers, Sequences, FiniteSets, TLC

VARIABLES
  regs,      \* CPU: general purpose register file, register name -> bit vector
  mem,       \* CPU: stack memory, word address -> 32-bit word (bit vector)
  code,      \* CPU: the emitted instruction sequence
  ip,        \* CPU: index of the next instruction to execute (1-based)
  job,       \* the macro operation under execution and its inputs
  buffer_size,  \* assembler: buffer_.Size(), in bytes
  branches_,    \* assembler: the recorded branches, in emission order
  labels,       \* assembler: the labels (user labels first, then literal labels)
  literals_,    \* assembler: the literals created, 4-byte and 8-byte ones
  phase,        \* assembler: "assembling", "promoting", "promoted", "finalized", "fatal"
  emitted,      \* assembler: the final instruction words written for each branch
  chunks,       \* assembler: how many runs of plain instructions were emitted
  cc            \* calling convention: the prototype, its iterator and what was computed

cpuVars == <<regs, mem, code, ip, job>>

asmVars == <<buffer_size, branches_, labels, literals_, phase, emitted, chunks>>

ccVars == <<cc>>

vars == <<cpuVars, asmVars, ccVars>>

(***************************************************************************)
(* Bit vectors.                                                            *)
(***************************************************************************)
Bits64 == 0..63

Pow2(n) == 2 ^ n

\* bit i of the natural number n (n < 2^31)
BitOf(n, i) == IF i < 31 THEN (n \div Pow2(i)) % 2 ELSE 0

\* bit i (0 = least significant) of a bit vector
Bit(a, i) == a[i + 1]

\* the 64-bit vector whose bit i is F(i)
MkBv(F(_)) == [k \in 1..64 |-> F(k - 1)]

BvZero == MkBv(LAMBDA i : 0)

\* zero extension of a natural number below 2^31
BvFromNat(n) == MkBv(LAMBDA i : BitOf(n, i))

\* sign extension of the w-bit field n (0 <= n < 2^w, w <= 31)
BvSext(n, w) == MkBv(LAMBDA i : IF i < w THEN BitOf(n, i) ELSE BitOf(n, w - 1))

\* two's complement 64-bit image of an int32
BvFromInt32(v) ==
  IF v >= 0 THEN BvFromNat(v)
  ELSE LET m == (v + 1073741824) + 1073741824   \* v + 2^31, in 0..2^31-1
       IN MkBv(LAMBDA i : IF i < 31 THEN BitOf(m, i) ELSE 1)

BvAdd(a, b) ==
  LET c[i \in 0..64] ==
        IF i = 0 THEN 0 ELSE (Bit(a, i - 1) + Bit(b, i - 1) + c[i - 1]) \div 2
  IN MkBv(LAMBDA i : (Bit(a, i) + Bit(b, i) + c[i]) % 2)

BvOr(a, b)  == MkBv(LAMBDA i : IF Bit(a, i) = 1 \/ Bit(b, i) = 1 THEN 1 ELSE 0)

BvXor(a, b) == MkBv(LAMBDA i : (Bit(a, i) + Bit(b, i)) % 2)

\* a - b: a plus the complement of b plus one
BvSub(a, b) ==
  LET c[i \in 0..64] ==
        IF i = 0 THEN 1 ELSE (Bit(a, i - 1) + (1 - Bit(b, i - 1)) + c[i - 1]) \div 2
  IN MkBv(LAMBDA i : (Bit(a, i) + (1 - Bit(b, i)) + c[i]) % 2)

\* a < b as unsigned 64-bit numbers
BvLtU(a, b) ==
  \E i \in Bits64 :
    /\ Bit(a, i) = 0
    /\ Bit(b, i) = 1
    /\ \A j \in Bits64 : j > i => Bit(a, j) = Bit(b, j)

BvShl(a, k) == MkBv(LAMBDA i : IF i >= k THEN Bit(a, i - k) ELSE 0)

BvShrl(a, k) == MkBv(LAMBDA i : IF i + k <= 63 THEN Bit(a, i + k) ELSE 0)

BvShra(a, k) == MkBv(LAMBDA i : IF i + k <= 63 THEN Bit(a, i + k) ELSE Bit(a, 63))

\* sign extension of the low 32 bits
BvSext32(a) == MkBv(LAMBDA i : IF i < 32 THEN Bit(a, i) ELSE Bit(a, 31))

\* zero extension of the low 32 bits
BvZext32(a) == MkBv(LAMBDA i : IF i < 32 THEN Bit(a, i) ELSE 0)

\* the value of bits lo .. lo+n-1 as a natural number (n <= 30)
RECURSIVE BvField(_, _, _)
BvField(a, lo, n) == IF n = 0 THEN 0 ELSE Bit(a, lo) + 2 * BvField(a, lo + 1, n - 1)

\* the low 64 bits of a * b, by long multiplication on 8-bit limbs
BvMul(a, b) ==
  LET la[k \in 0..7] == BvField(a, 8 * k, 8)
      lb[k \in 0..7] == BvField(b, 8 * k, 8)
      RECURSIVE Column(_, _)
      Column(k, i) == IF i > k THEN 0 ELSE la[i] * lb[k - i] + Column(k, i + 1)
      s[k \in 0..7] == Column(k, 0) + (IF k = 0 THEN 0 ELSE s[k - 1] \div 256)
  IN MkBv(LAMBDA i : BitOf(s[i \div 8] % 256, i % 8))

\* the int32 held in bits lo .. lo+31
BvInt32At(a, lo) ==
  LET low == BvField(a, lo, 30) + (IF Bit(a, lo + 30) = 1 THEN 1073741824 ELSE 0)
  IN IF Bit(a, lo + 31) = 1 THEN (low - 1073741824) - 1073741824 ELSE low

\* a 64-bit value given by four 16-bit limbs, least significant first
BvFromLimbs(l) == MkBv(LAMBDA i : BitOf(l[(i \div 16) + 1], i % 16))


(***************************************************************************)
(* Instruction formats.  An instruction is the record of the bit fields    *)
(* that the emitter packs; register fields hold register names.            *)
(***************************************************************************)
\* uint16_t immediate shifted to bits 20..31: only its low 12 bits survive
EmitI(imm, rs1, funct3, rd, opcode) ==
  [opcode |-> opcode, rd |-> rd, funct3 |-> funct3, rs1 |-> rs1,
   imm12 |-> (imm % 65536) % 4096]

\* funct6 in bits 26..31, 6-bit shift amount in bits 20..25
EmitI6(funct6, imm6, rs1, funct3, rd, opcode) ==
  [opcode |-> opcode, rd |-> rd, funct3 |-> funct3, rs1 |-> rs1,
   imm12 |-> funct6 * 64 + ((imm6 % 65536) % 64)]

EmitR(funct7, rs2, rs1, funct3, rd, opcode) ==
  [opcode |-> opcode, rd |-> rd, funct3 |-> funct3, rs1 |-> rs1, rs2 |-> rs2,
   funct7 |-> funct7]

\* uint32_t immediate shifted left by 12: only its low 20 bits survive
EmitU(imm, rd, opcode) ==
  [opcode |-> opcode, rd |-> rd, imm20 |-> imm % 1048576]

\* bits 5..11 of the offset go to bits 25..31, bits 0..4 to bits 7..11
EmitS(imm, rs2, rs1, funct3, opcode) ==
  [opcode |-> opcode, funct3 |-> funct3, rs1 |-> rs1, rs2 |-> rs2,
   imm11_5 |-> ((imm % 65536) % 4096) \div 32, imm4_0 |-> (imm % 65536) % 32]

Lw(rd, rs1, offset)    == EmitI(offset, rs1, 2, rd, 3)
Ld(rd, rs1, offset)    == EmitI(offset, rs1, 3, rd, 3)
Lwu(rd, rs1, offset)   == EmitI(offset, rs1, 6, rd, 3)
Sw(rs2, rs1, offset)   == EmitS(offset, rs2, rs1, 2, 35)
Sd(rs2, rs1, offset)   == EmitS(offset, rs2, rs1, 3, 35)
Addi(rd, rs1, offset)  == EmitI(offset, rs1, 0, rd, 19)
Addiw(rd, rs1, imm12)  == EmitI(imm12, rs1, 0, rd, 27)
Lui(rd, imm20)         == EmitU(imm20, rd, 55)
Add(rd, rs1, rs2)      == EmitR(0, rs2, rs1, 0, rd, 51)
Xor(rd, rs1, rs2)      == EmitR(0, rs2, rs1, 4, rd, 51)
Sltiu(rd, rs1, offset) == EmitI(offset, rs1, 3, rd, 19)
Or(rd, rs1, rs2)       == EmitR(0, rs2, rs1, 6, rd, 51)
Sub(rd, rs1, rs2)      == EmitR(32, rs2, rs1, 0, rd, 51)
Mul(rd, rs1, rs2)      == EmitR(1, rs2, rs1, 0, rd, 51)
Srai(rd, rs1, offset)  == EmitI6(16, offset, rs1, 5, rd, 19)

\* Slli and Srli emit nothing for a shift of a register onto itself by zero
Slli(rd, rs1, offset) ==
  IF rd # rs1 \/ offset # 0 THEN <<EmitI6(0, offset, rs1, 1, rd, 19)>> ELSE <<>>

Srli(rd, rs1, offset) ==
  IF rd # rs1 \/ offset # 0 THEN <<EmitI6(0, offset, rs1, 5, rd, 19)>> ELSE <<>>

(***************************************************************************)
(* Constant materialisation.                                               *)
(***************************************************************************)
IsInt12(v) == -2048 <= v /\ v <= 2047

\* value is an int32
LoadConst32(rd, value) ==
  IF IsInt12(value) THEN <<Addi(rd, "ZERO", value)>>
  ELSE LET l == value % 4096
           h == (value \div 4096) + (IF (l \div 2048) % 2 = 1 THEN 1 ELSE 0)
       IN <<Lui(rd, h)>> \o (IF l # 0 THEN <<Addiw(rd, rd, l)>> ELSE <<>>)

\* IsInt<32> of a 64-bit value: bits 31..63 all equal
IsInt32Bv(v) == \A i \in 32..63 : Bit(v, i) = Bit(v, 31)

\* value is a 64-bit bit vector
LoadConst64(rd, value) ==
  IF IsInt32Bv(value) THEN LoadConst32(rd, BvInt32At(value, 0))
  ELSE LET hi == BvInt32At(value, 32)
           lo == BvInt32At(value, 0)
           scratch == "TMP2"
       IN LoadConst32(scratch, lo) \o LoadConst32(rd, hi) \o Slli(rd, rd, 32)
          \o Slli(scratch, scratch, 32) \o Srli(scratch, scratch, 32)
          \o <<Or(rd, rd, scratch)>>


(***************************************************************************)
(* Execution of emitted code: the RV64 semantics of the decoded fields.    *)
(***************************************************************************)
GpuRegisters == {"ZERO", "SP", "AT", "TMP2", "T6", "A0", "A1"}

RegGet(r, name) == IF name = "ZERO" THEN BvZero ELSE r[name]

RegSet(r, name, v) == IF name = "ZERO" THEN r ELSE [r EXCEPT ![name] = v]

\* a memory word is the tuple of its 32 bits, least significant first
MkWord(F(_)) == [k \in 1..32 |-> F(k - 1)]

\* the byte address held in a register, or -1 outside the modelled memory
AddrOf(a, m) ==
  IF \A i \in 30..63 : Bit(a, i) = 0
    THEN (IF BvField(a, 0, 30) \in DOMAIN m THEN BvField(a, 0, 30) ELSE -1)
    ELSE -1

ExecOk(r, m)  == [regs |-> r, mem |-> m, fault |-> FALSE]

ExecFault(r, m) == [regs |-> r, mem |-> m, fault |-> TRUE]

ExecLoad(insn, r, m) ==
  LET a == AddrOf(BvAdd(RegGet(r, insn.rs1), BvSext(insn.imm12, 12)), m)
  IN CASE a = -1 -> ExecFault(r, m)
       [] insn.funct3 = 2 ->      \* lw
            ExecOk(RegSet(r, insn.rd, MkBv(LAMBDA i : IF i < 32 THEN Bit(m[a], i) ELSE Bit(m[a], 31))), m)
       [] insn.funct3 = 6 ->      \* lwu
            ExecOk(RegSet(r, insn.rd, MkBv(LAMBDA i : IF i < 32 THEN Bit(m[a], i) ELSE 0)), m)
       [] insn.funct3 = 3 /\ (a + 4) \in DOMAIN m ->      \* ld, little endian
            ExecOk(RegSet(r, insn.rd,
                          MkBv(LAMBDA i : IF i < 32 THEN Bit(m[a], i) ELSE Bit(m[a + 4], i - 32))), m)
       [] OTHER -> ExecFault(r, m)

ExecStore(insn, r, m) ==
  LET a == AddrOf(BvAdd(RegGet(r, insn.rs1), BvSext(insn.imm11_5 * 32 + insn.imm4_0, 12)), m)
      v == RegGet(r, insn.rs2)
  IN CASE a = -1 -> ExecFault(r, m)
       [] insn.funct3 = 2 ->      \* sw
            ExecOk(r, [m EXCEPT ![a] = MkWord(LAMBDA i : Bit(v, i))])
       [] insn.funct3 = 3 /\ (a + 4) \in DOMAIN m ->      \* sd
            ExecOk(r, [m EXCEPT ![a] = MkWord(LAMBDA i : Bit(v, i)),
                                ![a + 4] = MkWord(LAMBDA i : Bit(v, i + 32))])
       [] OTHER -> ExecFault(r, m)

ExecOpImm(insn, r, m) ==
  LET x == RegGet(r, insn.rs1)
      shamt == insn.imm12 % 64
      funct6 == insn.imm12 \div 64
  IN CASE insn.funct3 = 0 -> ExecOk(RegSet(r, insn.rd, BvAdd(x, BvSext(insn.imm12, 12))), m)
       [] insn.funct3 = 3 ->      \* sltiu
            ExecOk(RegSet(r, insn.rd,
                          BvFromNat(IF BvLtU(x, BvSext(insn.imm12, 12)) THEN 1 ELSE 0)), m)
       [] insn.funct3 = 1 /\ funct6 = 0  -> ExecOk(RegSet(r, insn.rd, BvShl(x, shamt)), m)
       [] insn.funct3 = 5 /\ funct6 = 0  -> ExecOk(RegSet(r, insn.rd, BvShrl(x, shamt)), m)
       [] insn.funct3 = 5 /\ funct6 = 16 -> ExecOk(RegSet(r, insn.rd, BvShra(x, shamt)), m)
       [] OTHER -> ExecFault(r, m)

ExecOp(insn, r, m) ==
  LET x == RegGet(r, insn.rs1)
      y == RegGet(r, insn.rs2)
  IN CASE insn.funct7 = 0 /\ insn.funct3 = 0 -> ExecOk(RegSet(r, insn.rd, BvAdd(x, y)), m)
       [] insn.funct7 = 0 /\ insn.funct3 = 6 -> ExecOk(RegSet(r, insn.rd, BvOr(x, y)), m)
       [] insn.funct7 = 0 /\ insn.funct3 = 4 -> ExecOk(RegSet(r, insn.rd, BvXor(x, y)), m)
       [] insn.funct7 = 32 /\ insn.funct3 = 0 -> ExecOk(RegSet(r, insn.rd, BvSub(x, y)), m)
       [] insn.funct7 = 1 /\ insn.funct3 = 0 -> ExecOk(RegSet(r, insn.rd, BvMul(x, y)), m)
       [] OTHER -> ExecFault(r, m)

\* one instruction, selected by its major opcode
ExecInstr(insn, r, m) ==
  CASE insn.opcode = 3  -> ExecLoad(insn, r, m)
    [] insn.opcode = 35 -> ExecStore(insn, r, m)
    [] insn.opcode = 19 -> ExecOpImm(insn, r, m)
    [] insn.opcode = 27 /\ insn.funct3 = 0 ->      \* addiw
         ExecOk(RegSet(r, insn.rd,
                       BvSext32(BvAdd(RegGet(r, insn.rs1), BvSext(insn.imm12, 12)))), m)
    [] insn.opcode = 55 ->                          \* lui
         ExecOk(RegSet(r, insn.rd, BvSext32(BvShl(BvFromNat(insn.imm20), 12))), m)
    [] insn.opcode = 51 -> ExecOp(insn, r, m)
    [] insn.opcode = 11 /\ insn.funct3 = 3 ->      \* extu: bits msb..lsb, zero-extended
         LET msb == insn.imm12 \div 64
             lsb == insn.imm12 % 64
             x == RegGet(r, insn.rs1)
         IN ExecOk(RegSet(r, insn.rd,
                          MkBv(LAMBDA i : IF i + lsb <= msb THEN Bit(x, i + lsb) ELSE 0)), m)
    [] OTHER -> ExecFault(r, m)

\* every register except ZERO starts with all bits set
JunkRegs == [n \in GpuRegisters |-> MkBv(LAMBDA i : 1)]

NoMem == [a \in {} |-> 0]

\* run the instruction at ip; a resolved branch-if-zero skips the items it jumps over
ExecStep ==
  /\ job.status = "emitted"
  /\ ip <= Len(code)
  /\ LET item == code[ip]
     IN IF "opcode" \in DOMAIN item
          THEN LET res == ExecInstr(item, regs, mem)
               IN /\ regs' = res.regs
                  /\ mem' = res.mem
                  /\ ip' = ip + 1
                  /\ job' = IF res.fault THEN [job EXCEPT !.status = "fault"]
                            ELSE IF ip = Len(code) THEN [job EXCEPT !.status = "done"]
                            ELSE job
          ELSE LET taken == RegGet(regs, item.lhs) = BvZero
                   next == IF taken THEN ip + 1 + item.skip ELSE ip + 1
               IN /\ ip' = next
                  /\ job' = IF next > Len(code) THEN [job EXCEPT !.status = "done"] ELSE job
                  /\ UNCHANGED <<regs, mem>>
  /\ UNCHANGED code
  /\ UNCHANGED <<asmVars, ccVars>>

(***************************************************************************)
(* Branch and jump encodings.                                              *)
(***************************************************************************)
\* uint16_t immediate; CHECK(IsUint<13>(imm)); bit 12, bits 10..5, bits 4..1 and
\* bit 11 of the immediate are scattered over the word, bit 0 is not encoded
EmitB(imm, rs2, rs1, funct3, opcode) ==
  [opcode |-> opcode, funct3 |-> funct3, rs1 |-> rs1, rs2 |-> rs2,
   ok |-> (imm % 65536) < 8192,
   b12 |-> ((imm % 65536) \div 4096) % 2,
   b10_5 |-> ((imm % 65536) % 2048) \div 32,
   b4_1 |-> ((imm % 65536) % 32) \div 2,
   b11 |-> ((imm % 65536) \div 2048) % 2]

\* CHECK(IsUint<21>(imm20)); bit 20, bits 10..1, bit 11 and bits 19..12
EmitJ(imm20, rd, opcode) ==
  [opcode |-> opcode, rd |-> rd,
   ok |-> imm20 < 2097152,
   j20 |-> (imm20 \div 1048576) % 2,
   j10_1 |-> (imm20 % 2048) \div 2,
   j11 |-> (imm20 \div 2048) % 2,
   j19_12 |-> (imm20 % 1048576) \div 4096]

Auipc(rd, imm20)       == EmitU(imm20, rd, 23)
Jalr(rd, rs1, offset)  == EmitI(offset, rs1, 0, rd, 103)
Jal(rd, imm20)         == EmitJ(imm20, rd, 111)
Bc(imm20)              == Jal("ZERO", imm20)
Balc(imm20)            == Jal("RA", imm20)
Jic(rt, imm16)         == Jalr("ZERO", rt, imm16)
Jialc(rt, imm16)       == Jalr("RA", rt, imm16)

\* the compare-and-branch emitters reached from EmitBcond: Bltc, Bgec, Beqc, Bnec,
\* Bltuc, Bgeuc check their registers and emit Blt, Bge, Beq, Bne, Bltu, Bgeu
\* (funct3 4, 5, 0, 1, 6, 7 under opcode 0x63); the ...zc forms compare with ZERO
CompareBranch(funct3, rs1, rs2, imm12, checked) ==
  LET insn == EmitB(imm12, rs2, rs1, funct3, 99)
  IN [insn EXCEPT !.ok = @ /\ checked]

TwoRegs(rs, rt) == rs # "ZERO" /\ rt # "ZERO" /\ rs # rt

EmitBcond(cond, rs, rt, imm16_21) ==
  CASE cond = "kCondLT"  -> CompareBranch(4, rs, rt, imm16_21, TwoRegs(rs, rt))
    [] cond = "kCondGE"  -> CompareBranch(5, rs, rt, imm16_21, TwoRegs(rs, rt))
    [] cond = "kCondLE"  -> CompareBranch(5, rt, rs, imm16_21, TwoRegs(rs, rt))
    [] cond = "kCondGT"  -> CompareBranch(4, rt, rs, imm16_21, TwoRegs(rs, rt))
    [] cond = "kCondLTZ" -> CompareBranch(4, rs, "ZERO", imm16_21, rt = "ZERO" /\ rs # "ZERO")
    [] cond = "kCondGEZ" -> CompareBranch(5, rs, "ZERO", imm16_21, rt = "ZERO" /\ rs # "ZERO")
    [] cond = "kCondLEZ" -> CompareBranch(5, "ZERO", rs, imm16_21, rt = "ZERO" /\ rs # "ZERO")
    [] cond = "kCondGTZ" -> CompareBranch(4, "ZERO", rs, imm16_21, rt = "ZERO" /\ rs # "ZERO")
    [] cond = "kCondEQ"  -> CompareBranch(0, rs, rt, imm16_21, TwoRegs(rs, rt))
    [] cond = "kCondNE"  -> CompareBranch(1, rs, rt, imm16_21, TwoRegs(rs, rt))
    [] cond = "kCondEQZ" -> CompareBranch(0, rs, "ZERO", imm16_21, rt = "ZERO" /\ rs # "ZERO")
    [] cond = "kCondNEZ" -> CompareBranch(1, rs, "ZERO", imm16_21, rt = "ZERO" /\ rs # "ZERO")
    [] cond = "kCondLTU" -> CompareBranch(6, rs, rt, imm16_21, TwoRegs(rs, rt))
    [] cond = "kCondGEU" -> CompareBranch(7, rs, rt, imm16_21, TwoRegs(rs, rt))
    [] OTHER -> CompareBranch(0, rs, rt, imm16_21, FALSE)      \* kUncond: LOG(FATAL)

(***************************************************************************)
(* uint32_t values are kept as two 16-bit halves.                          *)
(***************************************************************************)
\* the uint32_t image of an integer d, -2^31 <= d < 2^31
U32(d) == [lo |-> d % 65536, hi |-> ((d - (d % 65536)) \div 65536) % 65536]

\* value & (0xFFFFFFFF >> (32 - n)), 1 <= n <= 32
U32Mask(u, n) ==
  IF n >= 32 THEN u
  ELSE IF n >= 16 THEN [lo |-> u.lo, hi |-> u.hi % Pow2(n - 16)]
  ELSE [lo |-> u.lo % Pow2(n), hi |-> 0]

\* value >> k, 0 <= k < 16
U32Shr(u, k) ==
  [lo |-> (u.lo \div Pow2(k)) + (u.hi % Pow2(k)) * Pow2(16 - k), hi |-> u.hi \div Pow2(k)]

\* value + n with wrap-around, 0 <= n < 2^16
U32Add(u, n) ==
  [lo |-> (u.lo + n) % 65536, hi |-> (u.hi + ((u.lo + n) \div 65536)) % 65536]

\* the number held, for values below 2^31
U32Val(u) == u.hi * 65536 + u.lo

Low12Bits(value) == value.lo % 4096

High20Bits(value) == value.hi * 16 + (value.lo \div 4096)

(***************************************************************************)
(* The Branch class.  A branch is the record of its fields; target_ of an  *)
(* unresolved branch is kUnresolved.  placeholder is the word the buffer   *)
(* holds at the branch: the link to the previous branch waiting for the    *)
(* same label.  label and promo_distance are history variables: the label  *)
(* the branch refers to, and the distance at which the branch was promoted *)
(* (the empty sequence while it has not been).                             *)
(***************************************************************************)
kOffset13 == 13
kOffset21 == 21
kOffset32 == 32

\* 0xffffffff, held as the int32 of the same bit pattern
kUnresolved == -1

kMaxBranchLength == 32

kMaxBranchSize == kMaxBranchLength * 4

ShortTypes == {"kUncondBranch", "kCondBranch", "kCall"}
BareTypes == {"kBareUncondBranch", "kBareCondBranch", "kBareCall"}
LabelTypes == {"kLabel", "kLiteral", "kLiteralUnsigned", "kLiteralLong"}
LongTypes == {"kLongUncondBranch", "kLongCondBranch", "kLongCall"}

\* length, instr_offset, pc_org, offset_size, offset_shift of each branch type
branch_info_ ==
  [t \in ShortTypes \cup BareTypes \cup LabelTypes \cup LongTypes |->
     CASE t \in {"kUncondBranch", "kCall", "kBareUncondBranch", "kBareCall"} ->
            [length |-> 1, instr_offset |-> 0, pc_org |-> 0, offset_size |-> kOffset21, offset_shift |-> 0]
       [] t \in {"kCondBranch", "kBareCondBranch"} ->
            [length |-> 1, instr_offset |-> 0, pc_org |-> 0, offset_size |-> kOffset13, offset_shift |-> 0]
       [] t = "kLongCondBranch" ->
            [length |-> 3, instr_offset |-> 1, pc_org |-> 0, offset_size |-> kOffset32, offset_shift |-> 0]
       [] OTHER ->
            [length |-> 2, instr_offset |-> 0, pc_org |-> 0, offset_size |-> kOffset32, offset_shift |-> 0]]

IsResolved(b) == b.target # kUnresolved

IsBare(b) == b.type \in BareTypes

IsLong(b) == b.type \in (LongTypes \cup LabelTypes)

GetOffsetSize(b) == branch_info_[b.type].offset_size

GetSize(b) == branch_info_[b.type].length * 4

GetOldSize(b) == branch_info_[b.old_type].length * 4

GetEndLocation(b) == b.location + GetSize(b)

GetOldEndLocation(b) == b.old_location + GetOldSize(b)

\* IsInt<N>(value)
IsInt(n, value) == -Pow2(n - 1) <= value /\ value < Pow2(n - 1)

\* the classification that promotes every resolved branch
AlwaysOffset32(location, target) == IF target = kUnresolved THEN kOffset13 ELSE kOffset32

GetOffsetSizeNeeded(location, target) ==
  IF target = kUnresolved THEN kOffset13
  ELSE LET d == target - location
           distance == d + (IF d >= 0 THEN kMaxBranchSize ELSE -kMaxBranchSize)
       IN IF IsInt(kOffset13, distance) THEN kOffset13
          ELSE IF IsInt(kOffset21, distance) THEN kOffset21
          ELSE kOffset32

InitShortOrLong(offset_size, short_type, long_type) ==
  IF offset_size <= branch_info_[short_type].offset_size THEN short_type ELSE long_type

\* the type chosen, and whether a CHECK of InitializeType fails
InitializeType(initial_type, condition, location, target) ==
  LET offset_size_needed == GetOffsetSizeNeeded(location, target)
      bare == IF initial_type = "kBareCall" THEN "kBareCall"
              ELSE IF condition = "kUncond" THEN "kBareUncondBranch" ELSE "kBareCondBranch"
  IN CASE initial_type \in LabelTypes ->
            [type |-> initial_type, fatal |-> target # kUnresolved]
       [] initial_type = "kCall" ->
            [type |-> InitShortOrLong(offset_size_needed, "kCall", "kLongCall"), fatal |-> FALSE]
       [] initial_type = "kCondBranch" /\ condition = "kUncond" ->
            [type |-> InitShortOrLong(offset_size_needed, "kUncondBranch", "kLongUncondBranch"),
             fatal |-> FALSE]
       [] initial_type = "kCondBranch" /\ condition # "kUncond" ->
            [type |-> InitShortOrLong(offset_size_needed, "kCondBranch", "kLongCondBranch"),
             fatal |-> FALSE]
       [] initial_type \in {"kBareCall", "kBareCondBranch"} ->
            [type |-> bare, fatal |-> ~(offset_size_needed <= branch_info_[bare].offset_size)]
       [] OTHER -> [type |-> initial_type, fatal |-> TRUE]

IsNop(condition, lhs, rhs) ==
  condition \in {"kCondLT", "kCondGT", "kCondNE", "kCondLTU"} /\ lhs = rhs

IsUncond(condition, lhs, rhs) ==
  \/ condition = "kUncond"
  \/ condition \in {"kCondGE", "kCondLE", "kCondEQ", "kCondGEU"} /\ lhs = rhs

ZeroConditions == {"kCondLTZ", "kCondGEZ", "kCondLEZ", "kCondGTZ", "kCondEQZ", "kCondNEZ"}

\* the three constructors: the branch built, and whether a CHECK fails on the way
MakeBranch(location, target, lhs_reg, rhs_reg, condition, initial_type, checks) ==
  LET t == InitializeType(initial_type, condition, location, target)
  IN [fatal |-> ~checks \/ t.fatal,
      branch |-> [old_location |-> location, location |-> location, target |-> target,
                  lhs_reg |-> lhs_reg, rhs_reg |-> rhs_reg, condition |-> condition,
                  type |-> t.type, old_type |-> t.type,
                  label |-> 0, placeholder |-> 0,
                  promo_distance |-> <<>>]]

BranchOrCall(location, target, is_call, is_bare) ==
  MakeBranch(location, target, "ZERO", "ZERO", "kUncond",
             IF is_call THEN (IF is_bare THEN "kBareCall" ELSE "kCall")
             ELSE (IF is_bare THEN "kBareCondBranch" ELSE "kCondBranch"),
             TRUE)

CondBranch(location, target, condition, lhs_reg, rhs_reg, is_bare) ==
  MakeBranch(location, target, lhs_reg, rhs_reg,
             IF IsUncond(condition, lhs_reg, rhs_reg) THEN "kUncond" ELSE condition,
             IF is_bare THEN "kBareCondBranch" ELSE "kCondBranch",
             /\ condition # "kUncond"
             /\ lhs_reg # "ZERO"
             /\ (condition \in ZeroConditions) = (rhs_reg = "ZERO")
             /\ ~IsNop(condition, lhs_reg, rhs_reg))

LabelOrLiteralBranch(location, dest_reg, label_or_literal_type) ==
  MakeBranch(location, kUnresolved, dest_reg, "ZERO", "kUncond", label_or_literal_type,
             dest_reg # "ZERO")

OppositeCondition(cond) ==
  CASE cond = "kCondLT" -> "kCondGE"   [] cond = "kCondGE" -> "kCondLT"
    [] cond = "kCondLE" -> "kCondGT"   [] cond = "kCondGT" -> "kCondLE"
    [] cond = "kCondLTZ" -> "kCondGEZ" [] cond = "kCondGEZ" -> "kCondLTZ"
    [] cond = "kCondLEZ" -> "kCondGTZ" [] cond = "kCondGTZ" -> "kCondLEZ"
    [] cond = "kCondEQ" -> "kCondNE"   [] cond = "kCondNE" -> "kCondEQ"
    [] cond = "kCondEQZ" -> "kCondNEZ" [] cond = "kCondNEZ" -> "kCondEQZ"
    [] cond = "kCondLTU" -> "kCondGEU" [] cond = "kCondGEU" -> "kCondLTU"
    [] OTHER -> "kUncond"

Relocate(b, expand_location, delta) ==
  LET moved == IF b.location > expand_location
                 THEN [b EXCEPT !.location = @ + delta] ELSE b
  IN IF ~IsResolved(moved) THEN moved
     ELSE IF moved.target > expand_location
       THEN [moved EXCEPT !.target = @ + delta] ELSE moved

\* a promotion that also turns a bare branch into the long branch of its kind
PromoteToLongAlsoBare(type) ==
  [fatal |-> FALSE,
   type |-> CASE type \in {"kUncondBranch", "kBareUncondBranch"} -> "kLongUncondBranch"
              [] type \in {"kCondBranch", "kBareCondBranch"} -> "kLongCondBranch"
              [] type \in {"kCall", "kBareCall"} -> "kLongCall"
              [] OTHER -> type]

\* the new type, and whether CHECK(!IsBare()) or CHECK(IsLong()) fails
PromoteToLong(type) ==
  LET t == CASE type = "kUncondBranch" -> "kLongUncondBranch"
             [] type = "kCondBranch" -> "kLongCondBranch"
             [] type = "kCall" -> "kLongCall"
             [] OTHER -> type
  IN [fatal |-> type \in BareTypes \/ t \notin (LongTypes \cup LabelTypes), type |-> t]

\* a relaxation that also shortens a long branch whose target is in short range
PromoteOrDemote(b) ==
  LET short == CASE b.type = "kLongUncondBranch" -> "kUncondBranch"
                 [] b.type = "kLongCondBranch" -> "kCondBranch"
                 [] b.type = "kLongCall" -> "kCall"
                 [] OTHER -> b.type
      fits == IsResolved(b) /\ b.type \in LongTypes
              /\ IsInt(branch_info_[short].offset_size, b.target - b.location)
      stay == [fatal |-> FALSE, delta |-> 0, branch |-> b]
  IN IF fits THEN [fatal |-> FALSE, delta |-> 0, branch |-> [b EXCEPT !.type = short]]
     ELSE IF IsLong(b) \/ ~IsResolved(b) THEN stay
     ELSE IF GetOffsetSizeNeeded(b.location, b.target) > GetOffsetSize(b)
       THEN LET p == PromoteToLong(b.type)
                nb == [b EXCEPT !.type = p.type, !.promo_distance = <<b.target - b.location>>]
            IN [fatal |-> p.fatal, delta |-> GetSize(nb) - GetOldSize(nb), branch |-> nb]
     ELSE stay

\* PromoteIfNeeded() with its default argument, as PromoteBranches calls it: the
\* promoted branch, the number of bytes it grew by, and whether a CHECK failed
PromoteIfNeeded(b) ==
  IF IsLong(b) \/ ~IsResolved(b) THEN [fatal |-> FALSE, delta |-> 0, branch |-> b]
  ELSE IF GetOffsetSizeNeeded(b.location, b.target) > GetOffsetSize(b)
    THEN LET p == PromoteToLong(b.type)
             nb == [b EXCEPT !.type = p.type, !.promo_distance = <<b.target - b.location>>]
         IN [fatal |-> p.fatal \/ ~(GetSize(nb) > GetOldSize(nb)),
             delta |-> GetSize(nb) - GetOldSize(nb), branch |-> nb]
  ELSE [fatal |-> FALSE, delta |-> 0, branch |-> b]

GetOffsetLocation(b) == b.location + branch_info_[b.type].instr_offset * 4

\* an offset taken from the first instruction of the branch
GetOffsetFromLocation(b) ==
  LET info == branch_info_[b.type]
  IN U32Shr(U32Mask(U32(b.target - b.location - info.pc_org * 4), info.offset_size),
            info.offset_shift)

\* the uint32_t offset; the caller has checked IsResolved()
GetOffset(b) ==
  LET info == branch_info_[b.type]
  IN U32Shr(U32Mask(U32(b.target - GetOffsetLocation(b) - info.pc_org * 4), info.offset_size),
            info.offset_shift)

\* the instruction words of a branch, and whether a CHECK fails while emitting
EmitBranch(b) ==
  LET offset == GetOffset(b)
      long == U32Add(offset, IF (offset.lo \div 2048) % 2 = 1 THEN 4096 ELSE 0)
      auipc == Auipc("AT", High20Bits(long))
      words ==
        CASE b.type \in {"kUncondBranch", "kBareUncondBranch"} -> <<Bc(U32Val(offset))>>
          [] b.type \in {"kCondBranch", "kBareCondBranch"} ->
               <<EmitBcond(b.condition, b.lhs_reg, b.rhs_reg, U32Val(offset))>>
          [] b.type \in {"kCall", "kBareCall"} -> <<Balc(U32Val(offset))>>
          [] b.type = "kLabel" -> <<auipc, Addi(b.lhs_reg, "AT", Low12Bits(long))>>
          [] b.type = "kLiteral" -> <<auipc, Lw(b.lhs_reg, "AT", Low12Bits(long))>>
          [] b.type = "kLiteralUnsigned" -> <<auipc, Lwu(b.lhs_reg, "AT", Low12Bits(long))>>
          [] b.type = "kLiteralLong" -> <<auipc, Ld(b.lhs_reg, "AT", Low12Bits(long))>>
          [] b.type = "kLongUncondBranch" -> <<auipc, Jic("AT", Low12Bits(long))>>
          [] b.type = "kLongCondBranch" ->
               <<EmitBcond(OppositeCondition(b.condition), b.lhs_reg, b.rhs_reg, 12),
                 auipc, Jic("AT", Low12Bits(long))>>
          [] b.type = "kLongCall" -> <<auipc, Jialc("AT", Low12Bits(long))>>
  IN [words |-> words,
      fatal |-> \/ ~IsResolved(b)
                \/ \E k \in 1..Len(words) : "ok" \in DOMAIN words[k] /\ ~words[k].ok
                \/ Len(words) * 4 # GetSize(b)
                \/ ~(GetSize(b) < kMaxBranchSize)]

(***************************************************************************)
(* The assembler: labels, branch recording, literals, branch promotion and *)
(* final branch emission.  A label is linked (link is the index of the     *)
(* last branch waiting for it, 0 for none) or bound (position is its       *)
(* location relative to the end of branch prev_branch_id_plus_one, or to   *)
(* the buffer start).  bound_pc and moved are history variables: the       *)
(* buffer size when the label was bound and the bytes its data moved down. *)
(***************************************************************************)
MaxLabels == 2
MaxBranches == 2
MaxChunks == 2
MaxLiterals == 1

\* byte sizes of the runs of plain instructions between branches and labels
CodeSizes == {8, 3956, 1048444}

BranchConditions == {"kCondLE"}

UserLabels == 1..MaxLabels

NewLabel == [state |-> "unused", link |-> 0, position |-> 0,
             prev_branch_id_plus_one |-> 0, bound_pc |-> 0, moved |-> 0]

\* Position() of the label of literal k
LiteralLabel(k) == MaxLabels + k

RECURSIVE ResolveLinked(_, _, _)
ResolveLinked(bs, link, bound_pc) ==
  IF link = 0 THEN bs
  ELSE ResolveLinked([bs EXCEPT ![link].target = bound_pc], bs[link].placeholder, bound_pc)

\* Bind(label) at buffer size size: the branches and labels afterwards
Bind(bs, ls, size, l) ==
  LET n == Len(bs)
      rel == IF n > 0 THEN size - GetEndLocation(bs[n]) ELSE size
  IN [branches |-> ResolveLinked(bs, ls[l].link, size),
      labels |-> [ls EXCEPT ![l] = [state |-> "bound", link |-> 0, position |-> rel,
                                    prev_branch_id_plus_one |-> n, bound_pc |-> size,
                                    moved |-> 0]]]

\* the buffer position at which the label was bound, whatever the branches do
GetLabelLocationWhereBound(bs, ls, l) == ls[l].bound_pc

GetLabelLocation(bs, ls, l) ==
  ls[l].position + (IF ls[l].prev_branch_id_plus_one # 0
                      THEN GetEndLocation(bs[ls[l].prev_branch_id_plus_one]) ELSE 0)

\* user labels are taken into use in order
LabelAvailable(l) == IF l = 1 THEN TRUE ELSE labels[l - 1].state # "unused"

\* branches_.emplace_back(...) followed by FinalizeLabeledBranch(label)
RecordBranch(made, l) ==
  IF made.fatal
    THEN /\ phase' = "fatal"
         /\ UNCHANGED <<buffer_size, branches_, labels, literals_, emitted, chunks>>
    ELSE LET bound == labels[l].state = "bound"
             b == [made.branch EXCEPT !.label = l,
                                      !.placeholder = IF bound THEN 0 ELSE labels[l].link]
         IN /\ branches_' = Append(branches_, b)
            /\ labels' = IF bound THEN labels
                         ELSE [labels EXCEPT ![l].state = "linked",
                                             ![l].link = Len(branches_) + 1]
            /\ buffer_size' = buffer_size + GetSize(b)
            /\ UNCHANGED <<literals_, phase, emitted, chunks>>

TargetOf(l) ==
  IF labels[l].state = "bound" THEN GetLabelLocation(branches_, labels, l) ELSE kUnresolved

\* a run of n bytes of plain instructions appended to the buffer
EmitCode(n) ==
  /\ phase = "assembling"
  /\ chunks < MaxChunks
  /\ buffer_size' = buffer_size + n
  /\ chunks' = chunks + 1
  /\ UNCHANGED <<branches_, labels, literals_, phase, emitted>>
  /\ UNCHANGED <<cpuVars, ccVars>>

BindLabel(l) ==
  /\ phase = "assembling"
  /\ LabelAvailable(l)
  /\ labels[l].state # "bound"
  /\ LET r == Bind(branches_, labels, buffer_size, l)
     IN branches_' = r.branches /\ labels' = r.labels
  /\ UNCHANGED <<buffer_size, literals_, phase, emitted, chunks>>
  /\ UNCHANGED <<cpuVars, ccVars>>

Buncond(l, is_bare) ==
  /\ phase = "assembling"
  /\ Len(branches_) < MaxBranches
  /\ LabelAvailable(l)
  /\ RecordBranch(BranchOrCall(buffer_size, TargetOf(l), FALSE, is_bare), l)
  /\ UNCHANGED <<cpuVars, ccVars>>

Bcond(l, is_bare, condition, lhs, rhs) ==
  /\ phase = "assembling"
  /\ Len(branches_) < MaxBranches
  /\ LabelAvailable(l)
  /\ ~IsNop(condition, lhs, rhs)
  /\ RecordBranch(CondBranch(buffer_size, TargetOf(l), condition, lhs, rhs, is_bare), l)
  /\ UNCHANGED <<cpuVars, ccVars>>

Call(l, is_bare) ==
  /\ phase = "assembling"
  /\ Len(branches_) < MaxBranches
  /\ LabelAvailable(l)
  /\ RecordBranch(BranchOrCall(buffer_size, TargetOf(l), TRUE, is_bare), l)
  /\ UNCHANGED <<cpuVars, ccVars>>

LoadLabelAddress(dest_reg, l) ==
  /\ phase = "assembling"
  /\ Len(branches_) < MaxBranches
  /\ LabelAvailable(l)
  /\ labels[l].state # "bound"
  /\ RecordBranch(LabelOrLiteralBranch(buffer_size, dest_reg, "kLabel"), l)
  /\ UNCHANGED <<cpuVars, ccVars>>

NewLiteral(size) ==
  /\ phase = "assembling"
  /\ Len(literals_) < MaxLiterals
  /\ literals_' = Append(literals_, [size |-> size, label |-> LiteralLabel(Len(literals_) + 1)])
  /\ UNCHANGED <<buffer_size, branches_, labels, phase, emitted, chunks>>
  /\ UNCHANGED <<cpuVars, ccVars>>

LoadLiteral(dest_reg, load_type, k) ==
  /\ phase = "assembling"
  /\ Len(branches_) < MaxBranches
  /\ k \in DOMAIN literals_
  /\ literals_[k].size = (IF load_type = "kLoadDoubleword" THEN 8 ELSE 4)
  /\ RecordBranch(LabelOrLiteralBranch(buffer_size, dest_reg,
                                       CASE load_type = "kLoadWord" -> "kLiteral"
                                         [] load_type = "kLoadUnsignedWord" -> "kLiteralUnsigned"
                                         [] load_type = "kLoadDoubleword" -> "kLiteralLong"),
                  literals_[k].label)
  /\ UNCHANGED <<cpuVars, ccVars>>

\* the literals of the given size, bound and appended one after the other
RECURSIVE EmitLiteralsFrom(_, _, _, _, _)
EmitLiteralsFrom(bs, ls, size, k, lit_size) ==
  IF k > Len(literals_) THEN [branches |-> bs, labels |-> ls, size |-> size]
  ELSE IF literals_[k].size # lit_size THEN EmitLiteralsFrom(bs, ls, size, k + 1, lit_size)
  ELSE LET r == Bind(bs, ls, size, literals_[k].label)
       IN EmitLiteralsFrom(r.branches, r.labels, size + lit_size, k + 1, lit_size)

HasLongLiterals == \E k \in DOMAIN literals_ : literals_[k].size = 8

EmitLiterals(bs, ls, size) ==
  LET w == EmitLiteralsFrom(bs, ls, size, 1, 4)
  IN IF HasLongLiterals
       THEN EmitLiteralsFrom(w.branches, w.labels, w.size + 4, 1, 8)
       ELSE w

\* the condition of the do-while loop that never repeats the pass
NeverAgain(changed) == FALSE

\* the condition of the do-while loop of PromoteBranches
LoopAgain(changed) == changed

\* a check of the branches that accepts unresolved ones
AnyBranch(b) == TRUE

\* CHECK(branch.IsResolved()) of PromoteBranches
CheckResolved(b) == IsResolved(b)

\* one pass of the for loop of PromoteBranches over the branches from index i on
RECURSIVE PromoteFrom(_, _, _)
PromoteFrom(bs, i, changed) ==
  IF i > Len(bs) THEN [branches |-> bs, changed |-> changed, fatal |-> FALSE]
  ELSE IF ~CheckResolved(bs[i]) THEN [branches |-> bs, changed |-> changed, fatal |-> TRUE]
  ELSE LET r == PromoteIfNeeded(bs[i])
           promoted == [bs EXCEPT ![i] = r.branch]
       IN IF r.fatal THEN [branches |-> bs, changed |-> changed, fatal |-> TRUE]
          ELSE IF r.delta # 0
            THEN PromoteFrom([k \in DOMAIN bs |-> Relocate(promoted[k], r.branch.location, r.delta)],
                             i + 1, TRUE)
          ELSE PromoteFrom(promoted, i + 1, changed)

FirstLongLiteral == CHOOSE k \in DOMAIN literals_ :
                      literals_[k].size = 8 /\ \A j \in 1..(k - 1) : literals_[j].size # 8

NumLongLiterals == Cardinality({k \in DOMAIN literals_ : literals_[k].size = 8})

\* the resizing of the buffer alone, the 64-bit literals staying where they are
ResizeOnly(bs, ls, size) ==
  LET n == Len(bs)
  IN [branches |-> bs, labels |-> ls,
      size |-> IF n > 0 THEN size + (GetEndLocation(bs[n]) - GetOldEndLocation(bs[n]))
               ELSE size,
      fatal |-> FALSE]

\* the rest of PromoteBranches once the loop has ended: the buffer is resized and
\* the 64-bit literals are moved down by 4 bytes if they are not 8-byte aligned
ResizeAndAlign(bs, ls, size) ==
  LET n == Len(bs)
      new_size == IF n > 0 THEN size + (GetEndLocation(bs[n]) - GetOldEndLocation(bs[n]))
                  ELSE size
      first == GetLabelLocation(bs, ls, literals_[FirstLongLiteral].label)
      keep == [branches |-> bs, labels |-> ls, size |-> new_size, fatal |-> FALSE]
  IN IF ~HasLongLiterals THEN keep
     ELSE IF first + NumLongLiterals * 8 # new_size THEN [keep EXCEPT !.fatal = TRUE]
     ELSE IF first % 8 = 0 THEN keep
     ELSE [branches |-> [k \in DOMAIN bs |->
                           IF bs[k].target >= first
                             THEN [bs[k] EXCEPT !.target = @ - 4] ELSE bs[k]],
           labels |-> [l \in DOMAIN ls |->
                         IF \E k \in DOMAIN literals_ :
                              literals_[k].size = 8 /\ literals_[k].label = l
                           THEN [ls[l] EXCEPT !.position = @ - 4, !.moved = 4] ELSE ls[l]],
           size |-> new_size - 4,
           fatal |-> FALSE]

\* FinalizeCode up to the first pass of PromoteBranches
FinalizeCode ==
  /\ phase = "assembling"
  /\ LET r == EmitLiterals(branches_, labels, buffer_size)
     IN /\ branches_' = r.branches
        /\ labels' = r.labels
        /\ buffer_size' = r.size
  /\ phase' = "promoting"
  /\ UNCHANGED <<literals_, emitted, chunks>>
  /\ UNCHANGED <<cpuVars, ccVars>>

\* one pass of the loop of PromoteBranches; after the last one, the rest of it
PromotePass ==
  /\ phase = "promoting"
  /\ LET r == PromoteFrom(branches_, 1, FALSE)
         f == ResizeAndAlign(r.branches, labels, buffer_size)
     IN IF r.fatal
          THEN phase' = "fatal" /\ UNCHANGED <<branches_, labels, buffer_size>>
        ELSE IF LoopAgain(r.changed)
          THEN branches_' = r.branches /\ UNCHANGED <<phase, labels, buffer_size>>
        ELSE IF f.fatal
          THEN phase' = "fatal" /\ branches_' = r.branches /\ UNCHANGED <<labels, buffer_size>>
        ELSE /\ phase' = "promoted"
             /\ branches_' = f.branches
             /\ labels' = f.labels
             /\ buffer_size' = f.size
  /\ UNCHANGED <<literals_, emitted, chunks>>
  /\ UNCHANGED <<cpuVars, ccVars>>

\* EmitBranches: the placeholders are overwritten in order until a CHECK fails
FinalizeInstructions ==
  /\ phase = "promoted"
  /\ LET bad == {k \in DOMAIN branches_ : EmitBranch(branches_[k]).fatal}
         stop == IF bad = {} THEN Len(branches_) + 1
                 ELSE CHOOSE k \in bad : \A j \in bad : k <= j
     IN /\ emitted' = [k \in 1..(stop - 1) |-> EmitBranch(branches_[k]).words]
        /\ phase' = IF bad = {} THEN "finalized" ELSE "fatal"
  /\ UNCHANGED <<buffer_size, branches_, labels, literals_, chunks>>
  /\ UNCHANGED <<cpuVars, ccVars>>

\* nothing is executed: no registers, no memory, no code
CpuIdle ==
  /\ regs = NoMem
  /\ mem = NoMem
  /\ code = <<>>
  /\ ip = 1
  /\ job = [op |-> "none", status |-> "idle"]

AsmIdle ==
  /\ buffer_size = 0
  /\ branches_ = <<>>
  /\ labels = [l \in 1..(MaxLabels + MaxLiterals) |-> NewLabel]
  /\ literals_ = <<>>
  /\ phase = "assembling"
  /\ emitted = <<>>
  /\ chunks = 0

\* no calling convention object is constructed
CcIdle == cc = [conv |-> "none"]

InitBranch == CpuIdle /\ AsmIdle /\ CcIdle

NextBranch ==
  \/ \E n \in CodeSizes : EmitCode(n)
  \/ \E l \in UserLabels : BindLabel(l)
  \/ \E l \in UserLabels, is_bare \in BOOLEAN : Buncond(l, is_bare)
  \/ \E l \in UserLabels, is_bare \in BOOLEAN, c \in BranchConditions :
       Bcond(l, is_bare, c, "A0", IF c \in ZeroConditions THEN "ZERO" ELSE "A1")
  \/ \E l \in UserLabels, is_bare \in BOOLEAN : Call(l, is_bare)
  \/ \E l \in UserLabels : LoadLabelAddress("A0", l)
  \/ \E size \in {4, 8} : NewLiteral(size)
  \/ \E t \in {"kLoadWord", "kLoadUnsignedWord", "kLoadDoubleword"}, k \in 1..MaxLiterals :
       LoadLiteral("A0", t, k)
  \/ FinalizeCode
  \/ PromotePass
  \/ FinalizeInstructions

SpecBranch == InitBranch /\ [][NextBranch]_vars

(***************************************************************************)
(* Properties of branch relaxation and final branch emission.              *)
(***************************************************************************)
\* the bytes branch k has grown by since it was recorded
Growth(k) == GetSize(branches_[k]) - GetOldSize(branches_[k])

\* the growth of all branches recorded before the original buffer position pc
RECURSIVE GrowthBefore(_, _)
GrowthBefore(pc, k) ==
  IF k = 0 THEN 0
  ELSE GrowthBefore(pc, k - 1) + (IF branches_[k].old_location < pc THEN Growth(k) ELSE 0)

\* where the code moves put branch i and the position at which label l was bound
FinalLocation(i) ==
  branches_[i].old_location + GrowthBefore(branches_[i].old_location, Len(branches_))

FinalLabelLocation(l) ==
  labels[l].bound_pc + GrowthBefore(labels[l].bound_pc, Len(branches_)) - labels[l].moved

\* the signed value of an n-bit field
SignExtend(v, n) == IF v >= Pow2(n - 1) THEN v - Pow2(n) ELSE v

\* the immediates as the instruction set reads them back from the word
BImmediate(w) == SignExtend(w.b12 * 4096 + w.b11 * 2048 + w.b10_5 * 32 + w.b4_1 * 2, 13)

JImmediate(w) == SignExtend(w.j20 * 1048576 + w.j19_12 * 4096 + w.j11 * 2048 + w.j10_1 * 2, 21)

PairImmediate(upper, lower) == SignExtend(upper.imm20, 20) * 4096 + SignExtend(lower.imm12, 12)

\* index of the word of branch i that carries its offset: the auipc of a pair, or
\* the single branch or jump word
OffsetWord(i) ==
  IF Len(emitted[i]) = 1 THEN 1
  ELSE CHOOSE k \in 1..Len(emitted[i]) : emitted[i][k].opcode = 23

DecodedOffset(i) ==
  LET w == emitted[i]
      k == OffsetWord(i)
  IN IF Len(w) = 1
       THEN (IF w[1].opcode = 99 THEN BImmediate(w[1]) ELSE JImmediate(w[1]))
       ELSE PairImmediate(w[k], w[k + 1])

FinalDistance(i) ==
  FinalLabelLocation(branches_[i].label) - (FinalLocation(i) + 4 * (OffsetWord(i) - 1))

Promoted(i) == branches_[i].type # branches_[i].old_type

\* the distance enlarged by kMaxBranchSize away from zero
Enlarged(d) == IF d >= 0 THEN d + kMaxBranchSize ELSE d - kMaxBranchSize

ShortOffsetSize(i) == branch_info_[branches_[i].old_type].offset_size

\* C1: after FinalizeCode and FinalizeInstructions the offset encoded in every branch
\* decodes to the byte distance from its offset-bearing instruction to the final
\* location of its target
C1_EncodedOffsetIsFinalDistance ==
  phase = "finalized" =>
    \A i \in DOMAIN branches_ : DecodedOffset(i) = FinalDistance(i)

C1_Witness ==
  /\ phase = "finalized"
  /\ \E i, j \in DOMAIN branches_ :
       /\ Promoted(i) /\ branches_[i].type = "kLongCondBranch"
       /\ DecodedOffset(i) = FinalDistance(i)
       /\ DecodedOffset(j) < 0

\* C2 as stated: a branch whose resolved distance fits the range of its short encoding
\* is never promoted
C2_FittingBranchNeverPromoted ==
  \A i \in DOMAIN branches_ :
    Promoted(i) => ~IsInt(ShortOffsetSize(i), branches_[i].promo_distance[1])

\* C2: a branch whose resolved distance, enlarged by kMaxBranchSize away from zero,
\* fits the range of its short encoding is never promoted
C2_FittingWithMarginNeverPromoted ==
  \A i \in DOMAIN branches_ :
    Promoted(i) => ~IsInt(ShortOffsetSize(i), Enlarged(branches_[i].promo_distance[1]))

C2_Witness ==
  /\ phase = "finalized"
  /\ \E i, j \in DOMAIN branches_ :
       /\ Promoted(i)
       /\ ~IsInt(ShortOffsetSize(i), branches_[i].promo_distance[1])
       /\ branches_[j].type \in ShortTypes
       /\ branches_[j].target - branches_[j].location > 8
       /\ IsInt(ShortOffsetSize(j), Enlarged(branches_[j].target - branches_[j].location))

\* a short or bare branch whose enlarged distance no longer fits its offset field
NeedsPromotion(b) ==
  /\ b.type \in (ShortTypes \cup BareTypes)
  /\ IsResolved(b)
  /\ ~IsInt(GetOffsetSize(b), Enlarged(b.target - b.location))

\* C3: relaxation has reached a fixed point, no branch needing promotion any more,
\* before any final branch word is written, and branch words are written only then
C3_FixedPointBeforeEmission ==
  /\ phase \in {"promoted", "finalized"} =>
       \A i \in DOMAIN branches_ : ~NeedsPromotion(branches_[i])
  /\ emitted # <<>> =>
       /\ phase \in {"finalized", "fatal"}
       /\ \A i \in DOMAIN branches_ : ~NeedsPromotion(branches_[i])

\* a branch promoted only because the growth of another branch pushed its target away
C3_Witness ==
  /\ phase = "finalized"
  /\ emitted # <<>>
  /\ \E i \in DOMAIN branches_ :
       /\ Promoted(i)
       /\ IsInt(ShortOffsetSize(i),
                Enlarged(labels[branches_[i].label].bound_pc - branches_[i].old_location))

\* C4: promotion is monotonic: a long branch never becomes short again and no branch
\* ever shrinks
C4_PromotionMonotonic ==
  [][\A i \in DOMAIN branches_ :
       /\ i \in DOMAIN branches_'
       /\ IsLong(branches_[i]) => IsLong(branches_'[i])
       /\ GetSize(branches_'[i]) >= GetSize(branches_[i])]_vars

C4_Witness ==
  /\ phase = "finalized"
  /\ \A i \in DOMAIN branches_ : Promoted(i) /\ IsLong(branches_[i])
  /\ Len(branches_) = MaxBranches

\* C5: a bare branch is never resized, and when its distance does not fit its offset
\* field the assembler stops instead of getting to emit a truncated offset
C5_BareBranchNeverResized ==
  \A i \in DOMAIN branches_ :
    branches_[i].old_type \in BareTypes =>
      /\ branches_[i].type = branches_[i].old_type
      /\ phase \in {"promoted", "finalized"} =>
           IsInt(GetOffsetSize(branches_[i]), branches_[i].target - branches_[i].location)

C5_Witness ==
  /\ phase = "fatal"
  /\ emitted = <<>>
  /\ literals_ = <<>>
  /\ \A i \in DOMAIN branches_ : IsResolved(branches_[i])
  /\ \E i \in DOMAIN branches_ :
       /\ IsBare(branches_[i])
       /\ ~IsInt(GetOffsetSize(branches_[i]), branches_[i].target - branches_[i].location)

\* C6: with a branch whose label was never bound, finalization stops on a fatal check:
\* relaxation does not complete and no word is emitted for an unresolved branch
C6_UnboundLabelStopsFinalization ==
  /\ phase \in {"promoted", "finalized"} =>
       \A i \in DOMAIN branches_ : IsResolved(branches_[i])
  /\ \A i \in DOMAIN emitted : IsResolved(branches_[i])

C6_Witness ==
  /\ phase = "fatal"
  /\ emitted = <<>>
  /\ literals_ = <<>>
  /\ \A i \in DOMAIN branches_ : ~IsBare(branches_[i])
  /\ \E i \in DOMAIN branches_ :
       ~IsResolved(branches_[i]) /\ labels[branches_[i].label].state = "linked"

(***************************************************************************)
(* Specification SpecConst: LoadConst64 of a boundary value into a         *)
(* register, then execution of the emitted sequence.                       *)
(***************************************************************************)
ConstLimbs == {0, 2048, 32767, 32768, 63488, 65535}

ConstValues == {BvFromLimbs(l) : l \in [1..4 -> ConstLimbs]}

\* ZERO is hard-wired and is no destination
ConstDestRegs == {"A0", "AT", "TMP2"}

InitConst ==
  /\ regs = JunkRegs
  /\ mem = NoMem
  /\ code = <<>>
  /\ ip = 1
  /\ \E rd \in ConstDestRegs, v \in ConstValues :
       job = [op |-> "LoadConst64", status |-> "new", rd |-> rd, value |-> v]
  /\ AsmIdle
  /\ CcIdle

DoLoadConst64 ==
  /\ job.op = "LoadConst64"
  /\ job.status = "new"
  /\ code' = code \o LoadConst64(job.rd, job.value)
  /\ job' = [job EXCEPT !.status = "emitted"]
  /\ UNCHANGED <<regs, mem, ip>>
  /\ UNCHANGED <<asmVars, ccVars>>

NextConst == DoLoadConst64 \/ ExecStep

SpecConst == InitConst /\ [][NextConst]_vars

\* C7: executing the sequence emitted by LoadConst64(rd, v) leaves exactly v in rd,
\* for every 64-bit value v and every destination register rd
C7_LoadConst64LeavesValue ==
  (job.op = "LoadConst64" /\ job.status = "done") => regs[job.rd] = job.value

\* the same for every destination register other than the scratch register TMP2
C7_LoadConst64ExceptScratch ==
  (job.op = "LoadConst64" /\ job.status = "done" /\ job.rd # "TMP2")
    => regs[job.rd] = job.value

C7_Witness ==
  /\ job.op = "LoadConst64" /\ job.status = "done" /\ job.rd # "TMP2"
  /\ ~IsInt32Bv(job.value)
  /\ regs[job.rd] = job.value

(***************************************************************************)
(* Calling conventions: the managed runtime convention and the JNI         *)
(* convention.  A prototype is the return type and the numbers of          *)
(* floating-point and integer-like parameters of the shorty; the order of  *)
(* the parameters is read one parameter at a time while iterating.         *)
(***************************************************************************)
kMaxFloatOrDoubleRegisterArguments == 8

kMaxIntLikeRegisterArguments == 8

kFramePointerSize == 8

\* the platform stack alignment
kStackAlignment == 16

kRiscv64StackAlignment == kStackAlignment

kGpuArgumentRegisters == <<"A0", "A1", "A2", "A3", "A4", "A5", "A6", "A7">>

kFpuArgumentRegisters == <<"FA0", "FA1", "FA2", "FA3", "FA4", "FA5", "FA6", "FA7">>

kCalleeSaveRegisters ==
  <<"FS0", "FS1", "FS2", "FS3", "FS4", "FS5", "FS6", "FS7", "FS8", "FS9", "FS10", "FS11",
    "S2", "S3", "S4", "S5", "S6", "S7", "S8", "S9", "S10", "S0">>

kCriticalCalleeSaveRegisters == <<"RA">>

\* the callee saves of the earlier revision of the JNI convention: no hard float ones
kCalleeSaveRegistersOlder ==
  <<"S2", "S3", "S4", "S5", "S6", "S7", "S8", "S9", "S10", "S0">>

RoundUp(x, n) == ((x + n - 1) \div n) * n

\* the earlier revision of the JNI convention: no floating-point argument
\* is ever passed in an integer register
OlderIsCurrentParamInRegister(itr_args_, itr_float_and_doubles_, is_fp) ==
  IF is_fp
    THEN itr_float_and_doubles_ < kMaxFloatOrDoubleRegisterArguments
    ELSE (itr_args_ - itr_float_and_doubles_) < kMaxIntLikeRegisterArguments

\* Riscv64ManagedRuntimeCallingConvention: A0 holds the method
ManagedIsCurrentParamInRegister(itr_args_, itr_float_and_doubles_, is_fp) ==
  LET gp_args == itr_args_ - itr_float_and_doubles_
  IN IF is_fp
       THEN LET can_spilled_to_gp == IF gp_args < 8 - 1 THEN 8 - gp_args - 1 ELSE 0
            IN itr_float_and_doubles_ < kMaxFloatOrDoubleRegisterArguments + can_spilled_to_gp
       ELSE LET spilled_to_gp ==
                  IF gp_args < 8 - 1
                    THEN IF itr_float_and_doubles_ >= kMaxFloatOrDoubleRegisterArguments
                           THEN itr_float_and_doubles_ - kMaxFloatOrDoubleRegisterArguments
                           ELSE 0
                    ELSE 0
            IN 1 + gp_args + spilled_to_gp < kMaxIntLikeRegisterArguments

\* a failed CHECK is fatal; registers are named through the 0-based tables
ManagedCurrentParamRegister(itr_args_, itr_float_and_doubles_, is_fp) ==
  LET gp_reg == itr_args_ - itr_float_and_doubles_
      spilled_to_gp ==
        IF itr_float_and_doubles_ >= kMaxFloatOrDoubleRegisterArguments
          THEN itr_float_and_doubles_ - kMaxFloatOrDoubleRegisterArguments
          ELSE 0
      index == 1 + gp_reg + spilled_to_gp
  IN IF ~ManagedIsCurrentParamInRegister(itr_args_, itr_float_and_doubles_, is_fp)
       THEN [fatal |-> TRUE, reg |-> "none"]
     ELSE IF is_fp /\ itr_float_and_doubles_ < kMaxFloatOrDoubleRegisterArguments
       THEN [fatal |-> FALSE, reg |-> kFpuArgumentRegisters[itr_float_and_doubles_ + 1]]
     ELSE IF index < kMaxIntLikeRegisterArguments
       THEN [fatal |-> FALSE, reg |-> kGpuArgumentRegisters[index + 1]]
     ELSE [fatal |-> TRUE, reg |-> "none"]

\* Riscv64JniCallingConvention: no integer register is reserved
JniIsCurrentParamInRegister(itr_args_, itr_float_and_doubles_, is_fp) ==
  LET gp_args == itr_args_ - itr_float_and_doubles_
  IN IF is_fp
       THEN LET can_spilled_to_gp == IF gp_args < 8 THEN 8 - gp_args ELSE 0
            IN itr_float_and_doubles_ < kMaxFloatOrDoubleRegisterArguments + can_spilled_to_gp
       ELSE LET spilled_to_gp ==
                  IF gp_args < 8
                    THEN IF itr_float_and_doubles_ >= kMaxFloatOrDoubleRegisterArguments
                           THEN itr_float_and_doubles_ - kMaxFloatOrDoubleRegisterArguments
                           ELSE 0
                    ELSE 0
            IN gp_args + spilled_to_gp < kMaxIntLikeRegisterArguments

JniCurrentParamRegister(itr_args_, itr_float_and_doubles_, is_fp) ==
  LET gp_reg == itr_args_ - itr_float_and_doubles_
      spilled_to_gp ==
        IF itr_float_and_doubles_ >= kMaxFloatOrDoubleRegisterArguments
          THEN itr_float_and_doubles_ - kMaxFloatOrDoubleRegisterArguments
          ELSE 0
      index == gp_reg + spilled_to_gp
  IN IF ~JniIsCurrentParamInRegister(itr_args_, itr_float_and_doubles_, is_fp)
       THEN [fatal |-> TRUE, reg |-> "none"]
     ELSE IF is_fp /\ itr_float_and_doubles_ < kMaxFloatOrDoubleRegisterArguments
       THEN [fatal |-> FALSE, reg |-> kFpuArgumentRegisters[itr_float_and_doubles_ + 1]]
     ELSE IF index < kMaxIntLikeRegisterArguments
       THEN [fatal |-> FALSE, reg |-> kGpuArgumentRegisters[index + 1]]
     ELSE [fatal |-> TRUE, reg |-> "none"]

\* the managed convention passes the method in the first integer register
MethodRegister == "A0"

\* JNIEnv* and jclass precede the parameters of an ordinary static native
\* method, JNIEnv* those of an instance one (whose receiver NumArgs counts)
NumberOfExtraArgumentsForJni(c) ==
  IF c.is_critical_native THEN 0 ELSE IF c.is_static THEN 2 ELSE 1

NumArgs(c) == c.num_fp + c.num_int + (IF c.is_static THEN 0 ELSE 1)

NumFloatOrDoubleArgs(c) == c.num_fp

\* how many parameters the iterator visits, and how many of them lead the
\* shorty's own parameters (JNIEnv*, jclass, the receiver): none of those
\* is a floating-point one
NumParams(c) ==
  IF c.conv = "jni" THEN NumberOfExtraArgumentsForJni(c) + NumArgs(c) ELSE NumArgs(c)

NumLeadingParams(c) == NumParams(c) - c.num_fp - c.num_int

\* the kinds the parameter at position pos can have, fp of the parameters
\* before it being floating-point ones
ParamKinds(c, pos, fp) ==
  IF pos >= NumParams(c) THEN {"end"}
  ELSE IF pos < NumLeadingParams(c) THEN {"int"}
  ELSE {k \in {"fp", "int"} :
          IF k = "fp" THEN fp < c.num_fp
                      ELSE pos - NumLeadingParams(c) - fp < c.num_int}

IsCurrentParamAFloatOrDouble(c) == c.cur = "fp"

HasNext(c) == c.itr_args_ < NumParams(c)

IsCriticalNative(c) == c.is_critical_native

UseTailCall(c) == FALSE

CalleeSaveRegisters(c) ==
  IF IsCriticalNative(c)
    THEN IF UseTailCall(c) THEN <<>> ELSE kCriticalCalleeSaveRegisters
    ELSE kCalleeSaveRegisters

ReturnTypes == {"V", "I", "J"}

\* void, a 32-bit value, a 64-bit value
SizeOfReturnValue(c) == CASE c.ret = "V" -> 0 [] c.ret = "I" -> 4 [] OTHER -> 8

SpillsReturnValue(c) == ~IsCriticalNative(c)

HasLocalReferenceSegmentState(c) == ~IsCriticalNative(c)

\* the link pointer and the reference count, then one 32-bit slot per reference
HandleScopeSizeOf(pointer_size, num_references) == pointer_size + 4 + 4 * num_references

\* the size of the outgoing arguments: one frame word per argument
GetNativeOutArgsSize(num_fp_args, num_non_fp_args) ==
  (num_fp_args + num_non_fp_args) * kFramePointerSize

\* the frame data of FrameSize with no rounding at all
FrameSizeUnaligned(c) ==
  kFramePointerSize + (Len(CalleeSaveRegisters(c)) + 1) * kFramePointerSize
    + SizeOfReturnValue(c)

FrameSize(c) ==
  IF c.is_critical_native
    THEN 0
    ELSE LET method_ptr_size == kFramePointerSize
             ra_and_callee_save_area_size ==
               (Len(CalleeSaveRegisters(c)) + 1) * kFramePointerSize
                 - (IF IsCriticalNative(c) THEN kFramePointerSize ELSE 0)
             total_size ==
               method_ptr_size + ra_and_callee_save_area_size
                 + (IF SpillsReturnValue(c) THEN SizeOfReturnValue(c) ELSE 0)
         IN RoundUp(total_size, kStackAlignment)

\* the result is a boolean, byte, short or char
RequiresSmallResultTypeExtension(c) == c.ret \in {"Z", "B", "S", "C"}

\* the size of the outgoing arguments of OutFrameSize, before the slot and the rounding
OutArgsSize(c) ==
  LET all_args == NumberOfExtraArgumentsForJni(c) + NumArgs(c)
      num_fp_args == NumFloatOrDoubleArgs(c)
  IN GetNativeOutArgsSize(num_fp_args, all_args - num_fp_args)

\* the condition that OutFrameSize has in a comment: a tail call can be made
\* if there are no stack args and the result needs no extension
TailCallPossible(c) == OutArgsSize(c) = 0 /\ ~RequiresSmallResultTypeExtension(c)

\* OutFrameSize with the condition of the comment in force
OutFrameSizeTailCall(c) ==
  LET size == OutArgsSize(c)
                + (IF c.is_critical_native /\ ~TailCallPossible(c)
                     THEN kFramePointerSize ELSE 0)
  IN RoundUp(size, kRiscv64StackAlignment)

OutFrameSize(c) ==
  LET all_args == NumberOfExtraArgumentsForJni(c) + NumArgs(c)
      num_fp_args == NumFloatOrDoubleArgs(c)
      num_non_fp_args == all_args - num_fp_args
      size == GetNativeOutArgsSize(num_fp_args, num_non_fp_args)
                + (IF IsCriticalNative(c) THEN kFramePointerSize ELSE 0)
  IN RoundUp(size, kRiscv64StackAlignment)

\* the earlier revision: the handle scope is part of the frame
FrameSizeOlder(c, reference_count) ==
  LET method_ptr_size == kFramePointerSize
      ra_and_callee_save_area_size == (Len(kCalleeSaveRegistersOlder) + 1) * kFramePointerSize
      frame_data_size ==
        method_ptr_size + ra_and_callee_save_area_size
          + (IF HasLocalReferenceSegmentState(c) THEN 4 ELSE 0)
      handle_scope_size == HandleScopeSizeOf(8, reference_count)
      total_size == frame_data_size + handle_scope_size + SizeOfReturnValue(c)
  IN RoundUp(total_size, kStackAlignment)

OutFrameSizeOlder(c) ==
  LET all_args == NumberOfExtraArgumentsForJni(c) + NumArgs(c)
  IN RoundUp(all_args * kFramePointerSize, kStackAlignment)

(***************************************************************************)
(* Specification SpecCall: a calling convention is constructed for a       *)
(* prototype, its parameters are visited in order and its frame sizes are  *)
(* computed.                                                               *)
(***************************************************************************)
MaxFpArgs == 10

MaxIntArgs == 8

MaxReferences == 2

\* @CriticalNative methods are static
Conventions ==
  {[conv |-> "managed", is_static |-> s, is_critical_native |-> FALSE] : s \in BOOLEAN}
    \cup {[conv |-> "jni", is_static |-> s, is_critical_native |-> FALSE] : s \in BOOLEAN}
    \cup {[conv |-> "jni", is_static |-> TRUE, is_critical_native |-> TRUE]}

\* the object after construction and ResetIterator: the iterator is at the
\* first parameter, taken holds the registers of the parameters before the
\* current one, loc is where the current one was found to be
NewConvention(k, ret, num_fp, num_int, cur) ==
  [conv |-> k.conv, is_static |-> k.is_static, is_critical_native |-> k.is_critical_native,
   ret |-> ret, num_fp |-> num_fp, num_int |-> num_int,
   itr_args_ |-> 0, itr_float_and_doubles_ |-> 0, cur |-> cur,
   placed |-> FALSE, loc |-> "none", fatal |-> FALSE,
   taken |-> IF k.conv = "managed" THEN {MethodRegister} ELSE {},
   frame |-> "none", frame_size |-> 0, out_frame_size |-> 0]

InitCall ==
  /\ CpuIdle
  /\ AsmIdle
  /\ \E k \in Conventions, ret \in ReturnTypes, num_fp \in 0..MaxFpArgs, num_int \in 0..MaxIntArgs :
       LET c == NewConvention(k, ret, num_fp, num_int, "end")
       IN \E cur \in ParamKinds(c, 0, 0) : cc = [c EXCEPT !.cur = cur]

\* if (IsCurrentParamInRegister()) CurrentParamRegister() else the stack
PlaceParam ==
  /\ cc.conv # "none"
  /\ cc.cur # "end"
  /\ ~cc.placed
  /\ LET is_fp == IsCurrentParamAFloatOrDouble(cc)
         in_register ==
           IF cc.conv = "managed"
             THEN ManagedIsCurrentParamInRegister(cc.itr_args_, cc.itr_float_and_doubles_, is_fp)
             ELSE JniIsCurrentParamInRegister(cc.itr_args_, cc.itr_float_and_doubles_, is_fp)
         r == IF cc.conv = "managed"
                THEN ManagedCurrentParamRegister(cc.itr_args_, cc.itr_float_and_doubles_, is_fp)
                ELSE JniCurrentParamRegister(cc.itr_args_, cc.itr_float_and_doubles_, is_fp)
     IN cc' = [cc EXCEPT !.placed = TRUE,
                         !.loc = IF in_register THEN r.reg ELSE "stack",
                         !.fatal = in_register /\ r.fatal]
  /\ UNCHANGED <<cpuVars, asmVars>>

\* Next(): on to the following parameter of the shorty
NextParam ==
  /\ cc.conv # "none"
  /\ HasNext(cc)
  /\ cc.placed
  /\ ~cc.fatal
  /\ LET fp == cc.itr_float_and_doubles_ + (IF IsCurrentParamAFloatOrDouble(cc) THEN 1 ELSE 0)
     IN \E cur \in ParamKinds(cc, cc.itr_args_ + 1, fp) :
          cc' = [cc EXCEPT !.itr_args_ = cc.itr_args_ + 1,
                           !.itr_float_and_doubles_ = fp,
                           !.cur = cur,
                           !.placed = FALSE,
                           !.loc = "none",
                           !.taken = IF cc.loc = "stack" THEN cc.taken ELSE cc.taken \cup {cc.loc}]
  /\ UNCHANGED <<cpuVars, asmVars>>

\* FrameSize() and OutFrameSize() of the JNI convention
BuildFrame ==
  /\ cc.conv = "jni"
  /\ cc.frame = "none"
  /\ cc' = [cc EXCEPT !.frame = "current",
                      !.frame_size = FrameSize(cc),
                      !.out_frame_size = OutFrameSize(cc)]
  /\ UNCHANGED <<cpuVars, asmVars>>

\* the same of the earlier revision, which knows no @CriticalNative
BuildFrameOlder(reference_count) ==
  /\ cc.conv = "jni"
  /\ ~cc.is_critical_native
  /\ cc.frame = "none"
  /\ cc' = [cc EXCEPT !.frame = "older",
                      !.frame_size = FrameSizeOlder(cc, reference_count),
                      !.out_frame_size = OutFrameSizeOlder(cc)]
  /\ UNCHANGED <<cpuVars, asmVars>>

NextCall ==
  \/ PlaceParam
  \/ NextParam
  \/ BuildFrame
  \/ \E n \in 0..MaxReferences : BuildFrameOlder(n)

SpecCall == InitCall /\ [][NextCall]_vars

\* the integer argument registers that hold none of the parameters before the current one
FreeGpuArgumentRegisters ==
  {i \in 1..Len(kGpuArgumentRegisters) : kGpuArgumentRegisters[i] \notin cc.taken}

FirstFreeGpuArgumentRegister ==
  kGpuArgumentRegisters[CHOOSE i \in FreeGpuArgumentRegisters :
                          \A j \in FreeGpuArgumentRegisters : i <= j]

\* C8: a floating-point parameter after the eighth is passed in the first integer
\* argument register that is still free, and on the stack only once none is free;
\* no parameter is on the stack while a register of its kind, or for a
\* floating-point one an integer register, is still free
C8_FloatSpillsToNextFreeIntRegister ==
  (cc.conv # "none" /\ cc.placed) =>
    /\ ~cc.fatal
    /\ (cc.cur = "fp" /\ cc.itr_float_and_doubles_ >= kMaxFloatOrDoubleRegisterArguments) =>
         IF FreeGpuArgumentRegisters # {}
           THEN cc.loc = FirstFreeGpuArgumentRegister
           ELSE cc.loc = "stack"
    /\ cc.loc = "stack" =>
         /\ FreeGpuArgumentRegisters = {}
         /\ cc.cur = "fp" => cc.itr_float_and_doubles_ >= kMaxFloatOrDoubleRegisterArguments

\* the tenth floating-point parameter of a static native method, an integer
\* parameter and the ninth floating-point one holding A2 and A3 before it
C8_Witness ==
  /\ cc.conv = "jni" /\ cc.is_static /\ ~cc.is_critical_native
  /\ cc.placed
  /\ cc.cur = "fp"
  /\ cc.itr_float_and_doubles_ = 9
  /\ cc.itr_args_ = 12
  /\ cc.loc = "A4"

\* C9: FrameSize() and OutFrameSize() are multiples of the stack alignment,
\* whatever the prototype
C9_FrameSizesAligned ==
  (cc.conv = "jni" /\ cc.frame # "none") =>
    /\ cc.frame_size % kStackAlignment = 0
    /\ cc.out_frame_size % kStackAlignment = 0

\* an ordinary native method whose frame data and outgoing arguments both
\* end off the alignment
C9_Witness ==
  /\ cc.conv = "jni" /\ cc.frame = "current" /\ ~cc.is_critical_native
  /\ cc.ret = "I"
  /\ (NumberOfExtraArgumentsForJni(cc) + NumArgs(cc)) % 2 = 1
  /\ cc.frame_size = 208
  /\ cc.out_frame_size > 0

(***************************************************************************)
(* Handle-scope helpers and the loads and stores they are made of.         *)
(***************************************************************************)
\* value is an int32; rtmp holds it when it is no 12-bit immediate
Addiu64(rt, rs, value, rtmp) ==
  IF IsInt12(value)
    THEN <<Addi(rt, rs, value)>>
    ELSE LoadConst64(rtmp, BvFromInt32(value)) \o <<Add(rt, rs, rtmp)>>

\* the code that prepares AT, and the base and offset left for the access
AdjustBaseAndOffset(base, offset, is_doubleword) ==
  LET doubleword_aligned == offset % 8 = 0
      two_accesses == is_doubleword /\ ~doubleword_aligned
      kMinOffsetForSimpleAdjustment == 2040
      kMaxOffsetForSimpleAdjustment == 2 * kMinOffsetForSimpleAdjustment
      low == offset % 4096
      carry == (low \div 2048) % 2 = 1
      offset_high20 == (offset \div 4096) + (IF carry THEN 1 ELSE 0)
      offset_low12 == IF carry THEN low - 4096 ELSE low
      bump == two_accesses /\ ~IsInt12(offset_low12 + 4)
  IN IF IsInt12(offset) /\ (~two_accesses \/ IsInt12(offset + 4))
       THEN [code |-> <<>>, base |-> base, offset |-> offset]
     ELSE IF 0 <= offset /\ offset <= kMaxOffsetForSimpleAdjustment
       THEN [code |-> <<Addi("AT", base, kMinOffsetForSimpleAdjustment)>>,
             base |-> "AT", offset |-> offset - kMinOffsetForSimpleAdjustment]
     ELSE IF -kMaxOffsetForSimpleAdjustment <= offset /\ offset < 0
       THEN [code |-> <<Addi("AT", base, -kMinOffsetForSimpleAdjustment)>>,
             base |-> "AT", offset |-> offset + kMinOffsetForSimpleAdjustment]
     ELSE [code |-> <<Lui("AT", offset_high20), Add("AT", base, "AT")>>
                      \o (IF bump THEN <<Addi("AT", "AT", 8)>> ELSE <<>>),
           base |-> "AT",
           offset |-> IF bump THEN offset_low12 - 8 ELSE offset_low12]

\* the word and doubleword loads; offset is a multiple of 4
LoadFromOffset(type, reg, base, offset) ==
  LET adj == AdjustBaseAndOffset(base, offset, type = "kLoadDoubleword")
  IN adj.code \o
     << CASE type = "kLoadWord" -> Lw(reg, adj.base, adj.offset)
          [] type = "kLoadUnsignedWord" -> Lwu(reg, adj.base, adj.offset)
          [] type = "kLoadDoubleword" -> Ld(reg, adj.base, adj.offset) >>

\* the word and doubleword stores; reg is not AT
StoreToOffset(type, reg, base, offset) ==
  LET adj == AdjustBaseAndOffset(base, offset, type = "kStoreDoubleword")
  IN adj.code \o
     << CASE type = "kStoreWord" -> Sw(reg, adj.base, adj.offset)
          [] type = "kStoreDoubleword" -> Sd(reg, adj.base, adj.offset) >>

\* Beqzc(rs, &label); body; Bind(&label): the branch skips the body when rs is zero
BeqzcOver(rs, body) == <<[lhs |-> rs, skip |-> Len(body)]>> \o body

\* in_reg is "none" for no register
CreateHandleScopeEntry(out_reg, handle_scope_offset, in_reg, null_allowed) ==
  IF null_allowed
    THEN LET in == IF in_reg = "none" THEN out_reg ELSE in_reg
         IN (IF in_reg = "none"
               THEN LoadFromOffset("kLoadUnsignedWord", out_reg, "SP", handle_scope_offset)
               ELSE <<>>)
            \o (IF out_reg # in THEN LoadConst32(out_reg, 0) ELSE <<>>)
            \o BeqzcOver(in, Addiu64(out_reg, "SP", handle_scope_offset, "AT"))
    ELSE Addiu64(out_reg, "SP", handle_scope_offset, "AT")

\* the overload that leaves the entry in the frame, at out_off
CreateHandleScopeEntryInFrame(out_off, handle_scope_offset, scratch, null_allowed) ==
  (IF null_allowed
     THEN LoadFromOffset("kLoadUnsignedWord", scratch, "SP", handle_scope_offset)
          \o BeqzcOver(scratch, Addiu64(scratch, "SP", handle_scope_offset, "AT"))
     ELSE Addiu64(scratch, "SP", handle_scope_offset, "AT"))
  \o StoreToOffset("kStoreDoubleword", scratch, "SP", out_off)

\* the reference is loaded with a doubleword load
LoadReferenceFromHandleScope(out_reg, in_reg) ==
  (IF out_reg # in_reg THEN LoadConst32(out_reg, 0) ELSE <<>>)
  \o BeqzcOver(in_reg, LoadFromOffset("kLoadDoubleword", out_reg, in_reg, 0))

(***************************************************************************)
(* Specification SpecHandle: a handle-scope entry is created for a slot of *)
(* the frame, in a register or in the frame, and the reference is loaded   *)
(* back through it; the emitted code is executed.                          *)
(***************************************************************************)
\* a 32-bit word given by two 16-bit limbs, least significant first
WordFromLimbs(l) == MkWord(LAMBDA i : BitOf(l[(i \div 16) + 1], i % 16))

WordZero == MkWord(LAMBDA i : 0)

ZeroExtended(w) == MkBv(LAMBDA i : IF i < 32 THEN w[i + 1] ELSE 0)

\* the references a slot can hold: null and three object addresses
References == {WordFromLimbs(l) : l \in [1..2 -> {0, 65528}]}

\* what the frame holds in the word after the slot: nothing, or the next reference
NextSlotWords == {WordZero, WordFromLimbs(<<8, 0>>)}

\* in range of a 12-bit immediate, of the one-instruction adjustment, and beyond
\* it without and with a carry out of the low 12 bits
HandleScopeOffsets == {16, 2052, 4104, 6152}

OutOffsets == {32, 2064}

StackPointer == BvFromNat(1024)

FrameAddress(offset) == 1024 + offset

\* the frame: the slot and the word after it, and the doubleword at out_off
InitFrame(handle_scope_offset, out_off, ref, next) ==
  [a \in {FrameAddress(handle_scope_offset), FrameAddress(handle_scope_offset) + 4,
          FrameAddress(out_off), FrameAddress(out_off) + 4} |->
     IF a = FrameAddress(handle_scope_offset) THEN ref
     ELSE IF a = FrameAddress(handle_scope_offset) + 4 THEN next
     ELSE WordZero]

\* a reference is null only where null is allowed; an input register holds
\* the reference of the slot
InitHandle ==
  /\ code = <<>>
  /\ ip = 1
  /\ AsmIdle
  /\ CcIdle
  /\ \E in_frame \in BOOLEAN, null_allowed \in BOOLEAN,
        handle_scope_offset \in HandleScopeOffsets, out_off \in OutOffsets,
        ref \in References, next \in NextSlotWords,
        out_reg \in {"A0", "A1"}, in_reg \in {"none", "A0", "A1"},
        load_out \in {"A0", "A1"} :
       /\ null_allowed \/ ref # WordZero
       /\ in_frame => (in_reg = "none" /\ out_reg = "A0")
       /\ ~in_frame => out_off = 32
       /\ mem = InitFrame(handle_scope_offset, out_off, ref, next)
       /\ regs = [n \in GpuRegisters |->
                    IF n = "SP" THEN StackPointer
                    ELSE IF n = in_reg THEN ZeroExtended(ref)
                    ELSE MkBv(LAMBDA i : 1)]
       /\ job = [op |-> "HandleScope", status |-> "new", stage |-> "create",
                 in_frame |-> in_frame, null_allowed |-> null_allowed,
                 handle_scope_offset |-> handle_scope_offset, out_off |-> out_off,
                 ref |-> ref, out_reg |-> IF in_frame THEN "T6" ELSE out_reg,
                 in_reg |-> in_reg, load_out |-> load_out, handle |-> BvZero]

DoCreateHandleScopeEntry ==
  /\ job.op = "HandleScope"
  /\ job.status = "new"
  /\ ~job.in_frame
  /\ code' = code \o CreateHandleScopeEntry(job.out_reg, job.handle_scope_offset,
                                            job.in_reg, job.null_allowed)
  /\ job' = [job EXCEPT !.status = "emitted"]
  /\ UNCHANGED <<regs, mem, ip>>
  /\ UNCHANGED <<asmVars, ccVars>>

\* T6 is the scratch register
DoCreateHandleScopeEntryInFrame ==
  /\ job.op = "HandleScope"
  /\ job.status = "new"
  /\ job.in_frame
  /\ code' = code \o CreateHandleScopeEntryInFrame(job.out_off, job.handle_scope_offset,
                                                   job.out_reg, job.null_allowed)
  /\ job' = [job EXCEPT !.status = "emitted"]
  /\ UNCHANGED <<regs, mem, ip>>
  /\ UNCHANGED <<asmVars, ccVars>>

\* the entry made is the input of the load
DoLoadReferenceFromHandleScope ==
  /\ job.op = "HandleScope"
  /\ job.status = "done"
  /\ job.stage = "create"
  /\ code' = code \o LoadReferenceFromHandleScope(job.load_out, job.out_reg)
  /\ job' = [job EXCEPT !.status = "emitted", !.stage = "load", !.handle = regs[job.out_reg]]
  /\ UNCHANGED <<regs, mem, ip>>
  /\ UNCHANGED <<asmVars, ccVars>>

NextHandle ==
  \/ DoCreateHandleScopeEntry
  \/ DoCreateHandleScopeEntryInFrame
  \/ DoLoadReferenceFromHandleScope
  \/ ExecStep

SpecHandle == InitHandle /\ [][NextHandle]_vars

\* the address of the slot
SlotAddress == BvAdd(StackPointer, BvFromNat(job.handle_scope_offset))

RoundTripDone == job.op = "HandleScope" /\ job.stage = "load" /\ job.status = "done"

\* C10: after CreateHandleScopeEntry and LoadReferenceFromHandleScope a null
\* reference gives the entry 0 and the reference 0, a non-null reference gives
\* a non-zero entry and exactly the reference of the slot
C10_HandleScopeRoundTrip ==
  RoundTripDone =>
    IF job.ref = WordZero
      THEN job.handle = BvZero /\ regs[job.load_out] = BvZero
      ELSE job.handle # BvZero /\ regs[job.load_out] = ZeroExtended(job.ref)

\* the entry itself is right: 0 for null, the address of the slot otherwise,
\* and the copy in the frame is the entry
C10_EntryIsSlotAddress ==
  (job.op = "HandleScope" /\ job.stage = "create" /\ job.status = "done") =>
    /\ regs[job.out_reg] = IF job.ref = WordZero THEN BvZero ELSE SlotAddress
    /\ job.in_frame =>
         /\ ZeroExtended(mem[FrameAddress(job.out_off)]) = BvZext32(regs[job.out_reg])
         /\ ZeroExtended(mem[FrameAddress(job.out_off) + 4]) = BvShrl(regs[job.out_reg], 32)

\* the round trip holds whenever the word after the slot is zero
C10_RoundTripWhenNextWordZero ==
  (RoundTripDone /\ mem[FrameAddress(job.handle_scope_offset) + 4] = WordZero) =>
    IF job.ref = WordZero
      THEN job.handle = BvZero /\ regs[job.load_out] = BvZero
      ELSE job.handle # BvZero /\ regs[job.load_out] = ZeroExtended(job.ref)

\* what the doubleword load leaves: the reference with the next word above it
C10_LoadedDoubleword ==
  (RoundTripDone /\ job.ref # WordZero) =>
    /\ BvZext32(regs[job.load_out]) = ZeroExtended(job.ref)
    /\ BvShrl(regs[job.load_out], 32)
         = ZeroExtended(mem[FrameAddress(job.handle_scope_offset) + 4])

(***************************************************************************)
(* Floating-point compare macros.  A floating-point register holds the     *)
(* 64 bits of its value; a single-precision value is held in the low 32    *)
(* bits under 32 one bits.                                                 *)
(***************************************************************************)
\* the raw branch over a byte offset (assembler_riscv64.cc 408-414)
Beq(rs1, rs2, offset) == EmitB(offset, rs2, rs1, 0, 99)
Bne(rs1, rs2, offset) == EmitB(offset, rs2, rs1, 1, 99)

\* the compare and classify instructions (assembler_riscv64.cc 670-680, 718,
\* 771-781, 819); funct7 80 and 112 are the single precision forms, 81 and
\* 113 the double precision ones
FEqS(rd, rs1, rs2) == EmitR(80, rs2, rs1, 2, rd, 83)
FLtS(rd, rs1, rs2) == EmitR(80, rs2, rs1, 1, rd, 83)
FLeS(rd, rs1, rs2) == EmitR(80, rs2, rs1, 0, rd, 83)
FClassS(rd, rs1)   == EmitR(112, 0, rs1, 1, rd, 83)
FLeD(rd, rs1, rs2) == EmitR(81, rs2, rs1, 0, rd, 83)
FLtD(rd, rs1, rs2) == EmitR(81, rs2, rs1, 1, rd, 83)
FEqD(rd, rs1, rs2) == EmitR(81, rs2, rs1, 2, rd, 83)
FClassD(rd, rs1)   == EmitR(113, 0, rs1, 1, rd, 83)

CmpUltS(rd, fs, ft) ==
  <<FClassS("TMP", fs)>> \o Srli("TMP", "TMP", 8) \o <<Bne("TMP", "ZERO", 24)>>
  \o <<FClassS("TMP", ft)>> \o Srli("TMP", "TMP", 8) \o <<Bne("TMP", "ZERO", 12)>>
  \o <<FLtS(rd, fs, ft), Jal("ZERO", 8), Addi(rd, "ZERO", 1)>>

CmpUleS(rd, fs, ft) ==
  <<FClassS("TMP", fs)>> \o Srli("TMP", "TMP", 8) \o <<Bne("TMP", "ZERO", 24)>>
  \o <<FClassS("TMP", ft)>> \o Srli("TMP", "TMP", 8) \o <<Bne("TMP", "ZERO", 12)>>
  \o <<FLeS(rd, fs, ft), Jal("ZERO", 8), Addi(rd, "ZERO", 1)>>

CmpUneS(rd, fs, ft) ==
  <<FClassS("TMP", fs)>> \o Srli("TMP", "TMP", 8) \o <<Bne("TMP", "ZERO", 28)>>
  \o <<FClassS("TMP", ft)>> \o Srli("TMP", "TMP", 8) \o <<Bne("TMP", "ZERO", 16)>>
  \o <<FEqS("TMP", fs, ft), Sltiu(rd, "TMP", 1), Jal("ZERO", 8), Addi(rd, "ZERO", 1)>>

CmpUeqD(rd, fs, ft) ==
  <<FClassD("TMP", fs)>> \o Srli("TMP", "TMP", 8) \o <<Bne("TMP", "ZERO", 24)>>
  \o <<FClassD("TMP", ft)>> \o Srli("TMP", "TMP", 8) \o <<Bne("TMP", "ZERO", 12)>>
  \o <<FEqD(rd, fs, ft), Jal("ZERO", 8), Addi(rd, "ZERO", 1)>>

CmpUltD(rd, fs, ft) ==
  <<FClassD("TMP", fs)>> \o Srli("TMP", "TMP", 8) \o <<Bne("TMP", "ZERO", 24)>>
  \o <<FClassD("TMP", ft)>> \o Srli("TMP", "TMP", 8) \o <<Bne("TMP", "ZERO", 12)>>
  \o <<FLtD(rd, fs, ft), Jal("ZERO", 8), Addi(rd, "ZERO", 1)>>

CmpUleD(rd, fs, ft) ==
  <<FClassD("TMP", fs)>> \o Srli("TMP", "TMP", 8) \o <<Bne("TMP", "ZERO", 24)>>
  \o <<FClassD("TMP", ft)>> \o Srli("TMP", "TMP", 8) \o <<Bne("TMP", "ZERO", 12)>>
  \o <<FLeD(rd, fs, ft), Jal("ZERO", 8), Addi(rd, "ZERO", 1)>>

\* the sltiu reads rd, not the TMP that the feq.d has just written
CmpUneD(rd, fs, ft) ==
  <<FClassD("TMP", fs)>> \o Srli("TMP", "TMP", 8) \o <<Bne("TMP", "ZERO", 28)>>
  \o <<FClassD("TMP", ft)>> \o Srli("TMP", "TMP", 8) \o <<Bne("TMP", "ZERO", 16)>>
  \o <<FEqD("TMP", fs, ft), Sltiu(rd, rd, 1), Jal("ZERO", 8), Addi(rd, "ZERO", 1)>>

(***************************************************************************)
(* The floating-point instructions, on the bits of their operands.         *)
(***************************************************************************)
\* the bits of the fraction, and the sign position, of a format
FractionBits(double) == IF double THEN 52 ELSE 23

SignBit(double) == IF double THEN 63 ELSE 31

\* a single precision value is valid only under 32 one bits
IsBoxed(a, double) == double \/ \A i \in 32..63 : Bit(a, i) = 1

ExponentOnes(a, double) ==
  \A i \in FractionBits(double)..(SignBit(double) - 1) : Bit(a, i) = 1

ExponentZero(a, double) ==
  \A i \in FractionBits(double)..(SignBit(double) - 1) : Bit(a, i) = 0

FractionZero(a, double) == \A i \in 0..(FractionBits(double) - 1) : Bit(a, i) = 0

IsNaN(a, double) ==
  ~IsBoxed(a, double) \/ (ExponentOnes(a, double) /\ ~FractionZero(a, double))

IsSignalingNaN(a, double) ==
  /\ IsBoxed(a, double)
  /\ ExponentOnes(a, double)
  /\ ~FractionZero(a, double)
  /\ Bit(a, FractionBits(double) - 1) = 0

IsNegative(a, double) == Bit(a, SignBit(double)) = 1

MagnitudeZero(a, double) == ExponentZero(a, double) /\ FractionZero(a, double)

\* |a| < |b|, for two values that are not NaN
MagnitudeLess(a, b, double) ==
  \E i \in 0..(SignBit(double) - 1) :
    /\ Bit(a, i) = 0
    /\ Bit(b, i) = 1
    /\ \A j \in (i + 1)..(SignBit(double) - 1) : Bit(a, j) = Bit(b, j)

MagnitudeEqual(a, b, double) ==
  \A i \in 0..(SignBit(double) - 1) : Bit(a, i) = Bit(b, i)

\* feq, flt, fle: false when an operand is NaN; the two zeros are equal
FpEq(a, b, double) ==
  /\ ~IsNaN(a, double)
  /\ ~IsNaN(b, double)
  /\ \/ MagnitudeZero(a, double) /\ MagnitudeZero(b, double)
     \/ IsNegative(a, double) = IsNegative(b, double) /\ MagnitudeEqual(a, b, double)

FpLt(a, b, double) ==
  /\ ~IsNaN(a, double)
  /\ ~IsNaN(b, double)
  /\ ~(MagnitudeZero(a, double) /\ MagnitudeZero(b, double))
  /\ IF IsNegative(a, double)
       THEN IF IsNegative(b, double) THEN MagnitudeLess(b, a, double) ELSE TRUE
       ELSE IF IsNegative(b, double) THEN FALSE ELSE MagnitudeLess(a, b, double)

FpLe(a, b, double) == FpLt(a, b, double) \/ FpEq(a, b, double)

\* fclass: the number of the one bit that is set
FpClass(a, double) ==
  IF IsNaN(a, double) THEN (IF IsSignalingNaN(a, double) THEN 8 ELSE 9)
  ELSE IF ExponentOnes(a, double) THEN (IF IsNegative(a, double) THEN 0 ELSE 7)
  ELSE IF MagnitudeZero(a, double) THEN (IF IsNegative(a, double) THEN 3 ELSE 4)
  ELSE IF ExponentZero(a, double) THEN (IF IsNegative(a, double) THEN 2 ELSE 5)
  ELSE (IF IsNegative(a, double) THEN 1 ELSE 6)

BvFromBool(b) == BvFromNat(IF b THEN 1 ELSE 0)

BvNeg(a) == BvAdd(MkBv(LAMBDA i : 1 - Bit(a, i)), BvFromNat(1))

\* the largest and the smallest value of a signed integer of the given width
IntMax(width) == MkBv(LAMBDA i : IF i < width - 1 THEN 1 ELSE 0)

IntMin(width) == MkBv(LAMBDA i : IF i < width - 1 THEN 0 ELSE 1)

\* the biased exponent as a number
ExponentOf(a, double) ==
  LET lo == FractionBits(double)
      n == SignBit(double) - lo
      RECURSIVE Sum(_)
      Sum(k) == IF k = n THEN 0 ELSE Bit(a, lo + k) * Pow2(k) + Sum(k + 1)
  IN Sum(0)

\* fcvt.w and fcvt.l with rounding towards zero: NaN gives the largest
\* integer, a value out of range the nearest bound
FpToInt(a, double, width) ==
  LET frac == FractionBits(double)
      bias == IF double THEN 1023 ELSE 127
      e == ExponentOf(a, double) - bias
      significand == MkBv(LAMBDA i : IF i < frac THEN Bit(a, i)
                                     ELSE IF i = frac THEN 1 ELSE 0)
      magnitude == IF e <= frac THEN BvShrl(significand, frac - e)
                   ELSE BvShl(significand, e - frac)
  IN IF IsNaN(a, double) THEN IntMax(width)
     ELSE IF ExponentZero(a, double) \/ e < 0 THEN BvZero
     ELSE IF e >= width - 1
       THEN (IF IsNegative(a, double) THEN IntMin(width) ELSE IntMax(width))
     ELSE IF IsNegative(a, double) THEN BvNeg(magnitude) ELSE magnitude

\* opcode 0x53: the compares, fclass and the conversions to an integer
ExecFp(insn, r, m) ==
  LET double == insn.funct7 % 2 = 1
      a == r[insn.rs1]
      kind == insn.funct7 - (insn.funct7 % 2)
  IN CASE kind = 80 /\ insn.funct3 = 2 ->
            ExecOk(RegSet(r, insn.rd, BvFromBool(FpEq(a, r[insn.rs2], double))), m)
       [] kind = 80 /\ insn.funct3 = 1 ->
            ExecOk(RegSet(r, insn.rd, BvFromBool(FpLt(a, r[insn.rs2], double))), m)
       [] kind = 80 /\ insn.funct3 = 0 ->
            ExecOk(RegSet(r, insn.rd, BvFromBool(FpLe(a, r[insn.rs2], double))), m)
       [] kind = 112 /\ insn.funct3 = 1 ->
            ExecOk(RegSet(r, insn.rd, BvShl(BvFromNat(1), FpClass(a, double))), m)
       [] kind = 96 /\ insn.rs2 = 0 /\ insn.funct3 = 1 ->
            ExecOk(RegSet(r, insn.rd, FpToInt(a, double, 32)), m)
       [] kind = 96 /\ insn.rs2 = 2 /\ insn.funct3 = 1 ->
            ExecOk(RegSet(r, insn.rd, FpToInt(a, double, 64)), m)
       [] OTHER -> ExecFault(r, m)

\* run the item at ip: a branch-if-zero over a bound label, a raw beq, bne or
\* jal over a byte offset, mveqz, a floating-point or an integer instruction
ExecStepFp ==
  /\ job.status = "emitted"
  /\ ip <= Len(code)
  /\ LET item == code[ip]
         kind == IF "opcode" \notin DOMAIN item THEN "label"
                 ELSE IF item.opcode = 99 THEN "branch"
                 ELSE IF item.opcode = 111 THEN "jal"
                 ELSE "other"
         res == IF kind # "other" THEN ExecOk(regs, mem)
                ELSE IF item.opcode = 83 THEN ExecFp(item, regs, mem)
                ELSE IF item.opcode = 11
                  THEN (IF item.funct5 = 8 /\ item.funct2 = 0 /\ item.funct3 = 1
                          THEN ExecOk(IF RegGet(regs, item.rs2) = BvZero
                                        THEN RegSet(regs, item.rd, RegGet(regs, item.rs1))
                                        ELSE regs, mem)
                          ELSE ExecFault(regs, mem))
                ELSE ExecInstr(item, regs, mem)
         taken == IF kind = "label" THEN RegGet(regs, item.lhs) = BvZero
                  ELSE IF kind = "branch"
                    THEN (RegGet(regs, item.rs1) = RegGet(regs, item.rs2)) = (item.funct3 = 0)
                  ELSE kind = "jal"
         target == IF kind = "label" THEN ip + 1 + item.skip
                   ELSE IF kind = "branch" THEN ip + (BImmediate(item) \div 4)
                   ELSE IF kind = "jal" THEN ip + (JImmediate(item) \div 4)
                   ELSE ip + 1
         next == IF taken THEN target ELSE ip + 1
         fault == \/ res.fault
                  \/ kind = "branch" /\ (~item.ok \/ item.funct3 \notin {0, 1})
                  \/ kind = "jal" /\ (~item.ok \/ item.rd # "ZERO")
                  \/ next < 1
     IN /\ regs' = res.regs
        /\ mem' = res.mem
        /\ ip' = IF fault THEN ip ELSE next
        /\ job' = IF fault THEN [job EXCEPT !.status = "fault"]
                  ELSE IF next > Len(code) THEN [job EXCEPT !.status = "done"]
                  ELSE job
  /\ UNCHANGED code
  /\ UNCHANGED <<asmVars, ccVars>>

(***************************************************************************)
(* Truncation to an integer.  Each macro has two bodies, chosen by the     *)
(* compile-time switch RISCV64_VARIANTS_THEAD, the first parameter here.   *)
(***************************************************************************)
kFPRoundingModeRTZ == 1

\* assembler_riscv64.cc 682-692 and 783-793
FCvtWS(rd, rs1, frm) == EmitR(96, 0, rs1, frm, rd, 83)
FCvtLS(rd, rs1, frm) == EmitR(96, 2, rs1, frm, rd, 83)
FCvtWD(rd, rs1, frm) == EmitR(97, 0, rs1, frm, rd, 83)
FCvtLD(rd, rs1, frm) == EmitR(97, 2, rs1, frm, rd, 83)

EmitRsd(funct5, funct2, funct_rs, rs1, funct3, rd, opcode) ==
  [opcode |-> opcode, rd |-> rd, funct3 |-> funct3, rs1 |-> rs1, rs2 |-> funct_rs,
   funct2 |-> funct2 % 4, funct5 |-> funct5]

\* rd <- rs1 when rs2 is zero
mveqz(rd, rs1, rs2) == EmitRsd(8, 0, rs2, rs1, 1, rd, 11)

TruncLS(thead, rd, fs) ==
  IF thead
    THEN <<FEqS("TMP", fs, fs), FCvtLS(rd, fs, kFPRoundingModeRTZ), mveqz(rd, "ZERO", "TMP")>>
    ELSE <<Xor(rd, rd, rd), FEqS("TMP", fs, fs)>>
         \o BeqzcOver("TMP", <<FCvtLS(rd, fs, kFPRoundingModeRTZ)>>)

TruncLD(thead, rd, fs) ==
  IF thead
    THEN <<FEqD("TMP", fs, fs), FCvtLD(rd, fs, kFPRoundingModeRTZ), mveqz(rd, "ZERO", "TMP")>>
    ELSE <<Xor(rd, rd, rd), FEqD("TMP", fs, fs)>>
         \o BeqzcOver("TMP", <<FCvtLD(rd, fs, kFPRoundingModeRTZ)>>)

TruncWS(thead, rd, fs) ==
  IF thead
    THEN <<FEqS("TMP", fs, fs), FCvtWS(rd, fs, kFPRoundingModeRTZ), mveqz(rd, "ZERO", "TMP")>>
    ELSE <<Xor(rd, rd, rd), FEqS("TMP", fs, fs)>>
         \o BeqzcOver("TMP", <<FCvtWS(rd, fs, kFPRoundingModeRTZ)>>)

TruncWD(thead, rd, fs) ==
  IF thead
    THEN <<FEqD("TMP", fs, fs), FCvtWD(rd, fs, kFPRoundingModeRTZ), mveqz(rd, "ZERO", "TMP")>>
    ELSE <<Xor(rd, rd, rd), FEqD("TMP", fs, fs)>>
         \o BeqzcOver("TMP", <<FCvtWD(rd, fs, kFPRoundingModeRTZ)>>)

(***************************************************************************)
(* Specification SpecFp: one compare or truncate macro is emitted for      *)
(* operands drawn from the values below, and the emitted code is executed. *)
(***************************************************************************)
\* 0.0, -0.0, 1.0, 2.0, -1.0, -infinity, a quiet and a signaling NaN
DoubleValues ==
  {BvFromLimbs(l) : l \in {<<0, 0, 0, 0>>, <<0, 0, 0, 32768>>, <<0, 0, 0, 16368>>,
                           <<0, 0, 0, 16384>>, <<0, 0, 0, 49136>>, <<0, 0, 0, 65520>>,
                           <<0, 0, 0, 32760>>, <<1, 0, 0, 32752>>}}

\* the same values in single precision, and 1.0 without the one bits above it
SingleValues ==
  {BvFromLimbs(l) : l \in {<<0, 0, 65535, 65535>>, <<0, 32768, 65535, 65535>>,
                           <<0, 16256, 65535, 65535>>, <<0, 16384, 65535, 65535>>,
                           <<0, 49024, 65535, 65535>>, <<0, 65408, 65535, 65535>>,
                           <<0, 32704, 65535, 65535>>, <<1, 32640, 65535, 65535>>,
                           <<0, 16256, 0, 0>>}}

FpValues(double) == IF double THEN DoubleValues ELSE SingleValues

\* a truncation also gets 3.5, -2^31, 2^40 and 2^63
TruncDoubleValues ==
  DoubleValues \cup
  {BvFromLimbs(l) : l \in {<<0, 0, 0, 16396>>, <<0, 0, 0, 49632>>, <<0, 0, 0, 17008>>,
                           <<0, 0, 0, 17376>>}}

TruncSingleValues ==
  SingleValues \cup
  {BvFromLimbs(l) : l \in {<<0, 16480, 65535, 65535>>, <<0, 52992, 65535, 65535>>,
                           <<0, 21376, 65535, 65535>>, <<0, 24320, 65535, 65535>>}}

\* each in single and in double precision, but CmpUeq, which the assembler
\* defines in double precision only
CompareMacros == {"CmpUlt", "CmpUle", "CmpUeq", "CmpUne"}

TruncMacros == {"TruncLS", "TruncLD", "TruncWS", "TruncWD"}

\* the destination is an ordinary register or the scratch register of the macros
FpRegs(rd_old, fs, ft) ==
  [n \in {"ZERO", "TMP", "A0", "F0", "F1"} |->
     IF n = "F0" THEN fs ELSE IF n = "F1" THEN ft
     ELSE IF n = "ZERO" THEN BvZero ELSE rd_old]

InitFp ==
  /\ mem = NoMem
  /\ code = <<>>
  /\ ip = 1
  /\ AsmIdle
  /\ CcIdle
  /\ \E rd \in {"A0", "TMP"}, rd_old \in {BvZero, MkBv(LAMBDA i : 1)} :
       \/ \E macro \in CompareMacros, double \in BOOLEAN :
            \E fs \in FpValues(double), ft \in FpValues(double) :
              /\ macro = "CmpUeq" => double
              /\ regs = FpRegs(rd_old, fs, ft)
              /\ job = [op |-> "Cmp", status |-> "new", macro |-> macro, double |-> double,
                        thead |-> FALSE, rd |-> rd, rd_old |-> rd_old, fs |-> fs, ft |-> ft]
       \/ \E macro \in TruncMacros, thead \in BOOLEAN :
            LET double == macro \in {"TruncLD", "TruncWD"}
            IN \E fs \in IF double THEN TruncDoubleValues ELSE TruncSingleValues :
                 /\ regs = FpRegs(rd_old, fs, fs)
                 /\ job = [op |-> "Trunc", status |-> "new", macro |-> macro,
                           double |-> double, thead |-> thead, rd |-> rd,
                           rd_old |-> rd_old, fs |-> fs, ft |-> fs]

DoCompare ==
  /\ job.op = "Cmp"
  /\ job.status = "new"
  /\ code' = code \o
       (CASE job.macro = "CmpUlt" /\ ~job.double -> CmpUltS(job.rd, "F0", "F1")
          [] job.macro = "CmpUle" /\ ~job.double -> CmpUleS(job.rd, "F0", "F1")
          [] job.macro = "CmpUne" /\ ~job.double -> CmpUneS(job.rd, "F0", "F1")
          [] job.macro = "CmpUlt" /\ job.double -> CmpUltD(job.rd, "F0", "F1")
          [] job.macro = "CmpUle" /\ job.double -> CmpUleD(job.rd, "F0", "F1")
          [] job.macro = "CmpUeq" /\ job.double -> CmpUeqD(job.rd, "F0", "F1")
          [] job.macro = "CmpUne" /\ job.double -> CmpUneD(job.rd, "F0", "F1"))
  /\ job' = [job EXCEPT !.status = "emitted"]
  /\ UNCHANGED <<regs, mem, ip>>
  /\ UNCHANGED <<asmVars, ccVars>>

DoTrunc ==
  /\ job.op = "Trunc"
  /\ job.status = "new"
  /\ code' = code \o
       (CASE job.macro = "TruncLS" -> TruncLS(job.thead, job.rd, "F0")
          [] job.macro = "TruncLD" -> TruncLD(job.thead, job.rd, "F0")
          [] job.macro = "TruncWS" -> TruncWS(job.thead, job.rd, "F0")
          [] job.macro = "TruncWD" -> TruncWD(job.thead, job.rd, "F0"))
  /\ job' = [job EXCEPT !.status = "emitted"]
  /\ UNCHANGED <<regs, mem, ip>>
  /\ UNCHANGED <<asmVars, ccVars>>

NextFp ==
  \/ DoCompare
  \/ DoTrunc
  \/ ExecStepFp

SpecFp == InitFp /\ [][NextFp]_vars

CompareDone == job.op = "Cmp" /\ job.status = "done"

EitherIsNaN == IsNaN(job.fs, job.double) \/ IsNaN(job.ft, job.double)

\* the raw comparison that a macro stands for
RawComparison ==
  CASE job.macro = "CmpUlt" -> FpLt(job.fs, job.ft, job.double)
    [] job.macro = "CmpUle" -> FpLe(job.fs, job.ft, job.double)
    [] job.macro = "CmpUeq" -> FpEq(job.fs, job.ft, job.double)
    [] job.macro = "CmpUne" -> ~FpEq(job.fs, job.ft, job.double)

\* C11: an unordered compare macro leaves 1 in rd when either operand is NaN
\* and the result of the raw comparison of the two operands otherwise
C11_UnorderedCompare ==
  CompareDone =>
    regs[job.rd] = BvFromBool(IF EitherIsNaN THEN TRUE ELSE RawComparison)

\* the claim holds for every macro but CmpUneD, and for CmpUneD when rd is TMP
C11_ExceptUneD ==
  (CompareDone /\ ~(job.macro = "CmpUne" /\ job.double /\ job.rd # "TMP")) =>
    regs[job.rd] = BvFromBool(IF EitherIsNaN THEN TRUE ELSE RawComparison)

\* CmpUneD of two ordered operands leaves "the old rd is zero" in rd
C11_UneDReadsOldRd ==
  (CompareDone /\ job.macro = "CmpUne" /\ job.double /\ job.rd # "TMP" /\ ~EitherIsNaN) =>
    regs[job.rd] = BvFromBool(job.rd_old = BvZero)

\* no macro ends in a fault, and the operands are left alone
C11_RunsToEnd ==
  /\ job.status # "fault"
  /\ job.op \in {"Cmp", "Trunc"} => (regs["F0"] = job.fs /\ regs["F1"] = job.ft)

TruncDone == job.op = "Trunc" /\ job.status = "done"

TruncWidth == IF job.macro \in {"TruncLS", "TruncLD"} THEN 64 ELSE 32

\* C12: a truncate macro leaves zero in the destination register when the
\* source is NaN, whatever the destination register is
C12_NaNTruncatesToZero ==
  (TruncDone /\ IsNaN(job.fs, job.double)) => regs[job.rd] = BvZero

\* it does in the build without RISCV64_VARIANTS_THEAD, for TMP as well
C12_ZeroWithoutThead ==
  (TruncDone /\ ~job.thead /\ IsNaN(job.fs, job.double)) => regs[job.rd] = BvZero

\* and in the build with it for every destination register but TMP
C12_ZeroWithTheadExceptTmp ==
  (TruncDone /\ job.thead /\ job.rd # "TMP" /\ IsNaN(job.fs, job.double)) =>
    regs[job.rd] = BvZero

\* with TMP the conversion overwrites the flag that mveqz tests, and the
\* largest integer of the conversion of NaN stays
C12_TheadTmpKeepsConversion ==
  (TruncDone /\ job.thead /\ job.rd = "TMP" /\ IsNaN(job.fs, job.double)) =>
    regs[job.rd] = IntMax(TruncWidth)

\* a source that is not NaN is converted with rounding towards zero
C12_OrderedTruncation ==
  (TruncDone /\ ~IsNaN(job.fs, job.double)) =>
    regs[job.rd] = FpToInt(job.fs, job.double, TruncWidth)

(***************************************************************************)
(* Instruction set features.  A features object is its bitmap bits_; a     *)
(* string is the sequence of its characters.                               *)
(***************************************************************************)
kIBitfield == 1
kMBitfield == 2
kABitfield == 4
kFBitfield == 8
kDBitfield == 16
kCBitfield == 32
kVBitfield == 64
kSBitfield == 128
kUBitfield == 256

\* bits & field, for a field of one bit
HasBit(bits, field) == (bits \div field) % 2 = 1

\* the bits every path but FromBitmap uses
DefaultBits ==
  kIBitfield + kMBitfield + kABitfield + kFBitfield + kDBitfield + kCBitfield

\* the variant only selects a warning
FromVariant(variant) == DefaultBits

FromBitmap(bitmap) == bitmap

FromCppDefines == DefaultBits

\* the probing of the isa line of /proc/cpuinfo, which is compiled out
FromCpuInfoProbed(isa) ==
  IF isa = "imafdcv" THEN DefaultBits + kVBitfield ELSE DefaultBits

\* isa is what /proc/cpuinfo would say; it is not read
FromCpuInfo(isa) == DefaultBits

FromHwcap == FromCppDefines

FromAssembly == FromCppDefines

FromCpuFeatures == FromCppDefines

\* neither the object nor the features are used
AddFeaturesFromSplitString(bits, features) == DefaultBits

GetFeatureString(bits) ==
  <<"r", "v", "6", "4", "i", "m", "a", "f">>
  \o (IF HasBit(bits, kDBitfield) THEN <<"d">> ELSE <<>>)
  \o (IF HasBit(bits, kCBitfield) THEN <<"c">> ELSE <<>>)
  \o (IF HasBit(bits, kVBitfield) THEN <<"v">> ELSE <<>>)

(***************************************************************************)
(* Specification SpecFeatures: an object is made on one of the paths,      *)
(* others are derived from it, and its feature string is asked for.        *)
(***************************************************************************)
Bitmaps == 0..511

Variants == {"generic", "default", "c906"}

IsaLines == {"none", "imafdc", "imafdcv"}

FeatureLists == {<<>>, <<"v">>, <<"-c", "v">>, <<"default">>}

NoString == <<>>

NoFeatures == [op |-> "Features", status |-> "none", path |-> "none", bits_ |-> 0,
               str |-> NoString]

InitFeatures ==
  /\ regs = NoMem
  /\ mem = NoMem
  /\ code = <<>>
  /\ ip = 1
  /\ job = NoFeatures
  /\ AsmIdle
  /\ CcIdle

\* a new object with the given bits
Made(path, bits) ==
  /\ job.op = "Features"
  /\ job' = [op |-> "Features", status |-> "made", path |-> path, bits_ |-> bits,
             str |-> NoString]
  /\ UNCHANGED <<regs, mem, code, ip>>
  /\ UNCHANGED <<asmVars, ccVars>>

DoFromVariant == job.status = "none" /\ \E v \in Variants : Made("FromVariant", FromVariant(v))

DoFromBitmap == job.status = "none" /\ \E b \in Bitmaps : Made("FromBitmap", FromBitmap(b))

DoFromCppDefines == job.status = "none" /\ Made("FromCppDefines", FromCppDefines)

DoFromCpuInfo == job.status = "none" /\ \E isa \in IsaLines : Made("FromCpuInfo", FromCpuInfo(isa))

DoFromHwcap == job.status = "none" /\ Made("FromHwcap", FromHwcap)

DoFromAssembly == job.status = "none" /\ Made("FromAssembly", FromAssembly)

DoFromCpuFeatures == job.status = "none" /\ Made("FromCpuFeatures", FromCpuFeatures)

DoAddFeaturesFromSplitString ==
  /\ job.status # "none"
  /\ \E f \in FeatureLists :
       Made("AddFeaturesFromSplitString", AddFeaturesFromSplitString(job.bits_, f))

DoGetFeatureString ==
  /\ job.op = "Features"
  /\ job.status = "made"
  /\ job' = [job EXCEPT !.status = "string", !.str = GetFeatureString(job.bits_)]
  /\ UNCHANGED <<regs, mem, code, ip>>
  /\ UNCHANGED <<asmVars, ccVars>>

NextFeatures ==
  \/ DoFromVariant
  \/ DoFromBitmap
  \/ DoFromCppDefines
  \/ DoFromCpuInfo
  \/ DoFromHwcap
  \/ DoFromAssembly
  \/ DoFromCpuFeatures
  \/ DoAddFeaturesFromSplitString
  \/ DoGetFeatureString

SpecFeatures == InitFeatures /\ [][NextFeatures]_vars

\* the extension letters of a feature string: what follows "rv64"
ExtensionLetters(s) == {s[i] : i \in 5..Len(s)}

\* C13: the feature string has the extension letter "v" only for an object
\* made by FromBitmap with the vector bit set; on every other path the string
\* is exactly "rv64imafdc"
C13_VectorOnlyFromBitmap ==
  (job.op = "Features" /\ job.status = "string") =>
    /\ "v" \in ExtensionLetters(job.str) <=>
         (job.path = "FromBitmap" /\ HasBit(job.bits_, kVBitfield))
    /\ job.path # "FromBitmap" =>
         job.str = <<"r", "v", "6", "4", "i", "m", "a", "f", "d", "c">>

C13_Witness ==
  /\ job.op = "Features"
  /\ job.status = "string"
  /\ job.path = "FromBitmap"
  /\ HasBit(job.bits_, kVBitfield)
  /\ ~HasBit(job.bits_, kDBitfield)
  /\ job.str = <<"r", "v", "6", "4", "i", "m", "a", "f", "c", "v">>

(***************************************************************************)
(* The build script of the dex-overflow test.  A file is the sequence of   *)
(* its lines, a line the sequence of its characters.                       *)
(***************************************************************************)
EXPECTED_ERROR ==
    <<"C", "a", "n", "n", "o", "t", " ", "f", "i", "t", " ", "r", "e", "q",
    "u", "e", "s", "t", "e", "d", " ", "c", "l", "a", "s", "s", "e", "s",
    " ", "i", "n", " ", "a", " ", "s", "i", "n", "g", "l", "e", " ", "d",
    "e", "x">>

\* the text of the lines that the build may write to its standard error
DexOverflowLine ==
    <<"E", "r", "r", "o", "r", ":", " ", "C", "a", "n", "n", "o", "t", " ",
    "f", "i", "t", " ", "r", "e", "q", "u", "e", "s", "t", "e", "d", " ",
    "c", "l", "a", "s", "s", "e", "s", " ", "i", "n", " ", "a", " ", "s",
    "i", "n", "g", "l", "e", " ", "d", "e", "x", " ", "f", "i", "l", "e",
    " ", "(", "#", " ", "m", "e", "t", "h", "o", "d", "s", ":", " ", "6",
    "5", "5", "0", "1", " ", ">", " ", "6", "5", "5", "3", "6", ")">>

LowerCaseLine ==
    <<"e", "r", "r", "o", "r", ":", " ", "c", "a", "n", "n", "o", "t", " ",
    "f", "i", "t", " ", "r", "e", "q", "u", "e", "s", "t", "e", "d", " ",
    "c", "l", "a", "s", "s", "e", "s", " ", "i", "n", " ", "a", " ", "s",
    "i", "n", "g", "l", "e", " ", "d", "e", "x">>

FirstHalfLine ==
    <<"C", "a", "n", "n", "o", "t", " ", "f", "i", "t", " ", "r", "e", "q",
    "u", "e", "s", "t", "e", "d", " ", "c", "l", "a", "s", "s", "e", "s">>

SecondHalfLine ==
    <<"i", "n", " ", "a", " ", "s", "i", "n", "g", "l", "e", " ", "d", "e",
    "x">>

OtherErrorLine ==
    <<"F", "i", "l", "l", "e", "r", "M", "e", "t", "h", "o", "d", ".", "j",
    "a", "v", "a", ":", "3", ":", " ", "e", "r", "r", "o", "r", ":", " ",
    "t", "o", "o", " ", "m", "a", "n", "y", " ", "c", "o", "n", "s", "t",
    "a", "n", "t", "s">>

\* a line holds the pattern, which has no character special to grep, when
\* the pattern is a run of consecutive characters of the line
LineMatches(pattern, line) ==
  \E i \in 1..(Len(line) - Len(pattern) + 1) :
    SubSeq(line, i, i + Len(pattern) - 1) = pattern

\* grep -q pattern file: 0 when a line matches, 1 when none does, 2 when
\* the file cannot be read
GrepQuiet(pattern, file) ==
  IF ~file.exists THEN 2
  ELSE IF \E k \in 1..Len(file.lines) : LineMatches(pattern, file.lines[k]) THEN 0
  ELSE 1

(***************************************************************************)
(* Specification SpecScript: the commands of the script run in order under *)
(* set -e; the build exits with any status and leaves any of the files     *)
(* below as its standard error.                                            *)
(***************************************************************************)
ScriptArguments == {<<>>, <<"--jvm">>, <<"--host">>}

BuildStatuses == {0, 1, 2}

\* what stderr.txt holds after the build; it is absent when it could not be made
StderrFiles ==
  {[exists |-> FALSE, lines |-> <<>>]} \cup
  {[exists |-> TRUE, lines |-> l] :
     l \in {<<>>, <<DexOverflowLine>>, <<EXPECTED_ERROR>>, <<OtherErrorLine, DexOverflowLine>>,
            <<LowerCaseLine>>, <<FirstHalfLine, SecondHalfLine>>, <<OtherErrorLine>>}}

NoFile == [exists |-> FALSE, lines |-> <<>>]

InitScript ==
  /\ regs = NoMem
  /\ mem = NoMem
  /\ code = <<>>
  /\ ip = 1
  /\ AsmIdle
  /\ CcIdle
  /\ \E args \in ScriptArguments, src_exists \in BOOLEAN :
       job = [op |-> "Script", pc |-> "mkdir", args |-> args, src_exists |-> src_exists,
              NEED_DEX |-> FALSE, built |-> FALSE, build_status |-> 0,
              stderr |-> NoFile, exit_status |-> 0]

\* under set -e a command that fails ends the script with its status
ScriptStep(next, status, changed) ==
  /\ job' = IF status # 0
              THEN [changed EXCEPT !.pc = "exit", !.exit_status = status]
              ELSE [changed EXCEPT !.pc = next]
  /\ UNCHANGED <<regs, mem, code, ip>>
  /\ UNCHANGED <<asmVars, ccVars>>

\* mkdir src
MkdirSrc ==
  /\ job.op = "Script"
  /\ job.pc = "mkdir"
  /\ ScriptStep("awk", IF job.src_exists THEN 1 ELSE 0, [job EXCEPT !.src_exists = TRUE])

\* awk writes the three source files; it fails when it cannot write them
AwkWriteFiles ==
  /\ job.op = "Script"
  /\ job.pc = "awk"
  /\ \E status \in {0, 2} : ScriptStep("export", status, job)

\* export NEED_DEX=true
ExportNeedDex ==
  /\ job.op = "Script"
  /\ job.pc = "export"
  /\ ScriptStep("build", 0, [job EXCEPT !.NEED_DEX = TRUE])

\* ./default-build --api-level 20 "$@" > /dev/null 2> stderr.txt || true
DefaultBuild ==
  /\ job.op = "Script"
  /\ job.pc = "build"
  /\ \E status \in BuildStatuses, file \in StderrFiles :
       /\ ~file.exists => status # 0
       /\ ScriptStep("grep", IF status # 0 THEN 0 ELSE status,
                     [job EXCEPT !.built = TRUE, !.build_status = status,
                                !.stderr = file])

\* grep -q "$EXPECTED_ERROR" stderr.txt, the last command: its status is the script's
GrepExpectedError ==
  /\ job.op = "Script"
  /\ job.pc = "grep"
  /\ LET status == GrepQuiet(EXPECTED_ERROR, job.stderr)
     IN ScriptStep("exit", status, [job EXCEPT !.pc = "exit", !.exit_status = status])

NextScript ==
  \/ MkdirSrc
  \/ AwkWriteFiles
  \/ ExportNeedDex
  \/ DefaultBuild
  \/ GrepExpectedError

SpecScript == InitScript /\ [][NextScript]_vars

ScriptExited == job.op = "Script" /\ job.pc = "exit"

BuildFailed == job.built /\ job.build_status # 0

StderrHasExpectedError ==
  /\ job.stderr.exists
  /\ \E k \in 1..Len(job.stderr.lines) : LineMatches(EXPECTED_ERROR, job.stderr.lines[k])

\* C14: the script succeeds only if the build failed and its standard error
\* holds the expected text; otherwise it exits with failure
C14_SucceedsOnlyOnBuildFailure ==
  ScriptExited => (job.exit_status = 0 => (BuildFailed /\ StderrHasExpectedError))

\* the status of the script counts once it has exited; it succeeds exactly
\* when the build ran and stderr.txt holds the text
C14_SucceedsIffStderrHasError ==
  ScriptExited => (job.exit_status = 0 <=> (job.built /\ StderrHasExpectedError))

\* the status of the build takes no part: a build that succeeds with the
\* text on its standard error lets the script succeed
C14_BuildStatusIgnored ==
  (ScriptExited /\ job.built /\ job.build_status = 0 /\ StderrHasExpectedError) =>
    job.exit_status = 0

(***************************************************************************)
(* Specification SpecLiteral: code with up to MaxPoolLiterals literals of  *)
(* both sizes, loads of them and conditional branches over code of each    *)
(* size, then finalized.                                                   *)
(***************************************************************************)
MaxPoolLiterals == 3

InitLiteral ==
  /\ CpuIdle
  /\ CcIdle
  /\ buffer_size = 0
  /\ branches_ = <<>>
  /\ labels = [l \in 1..(MaxLabels + MaxPoolLiterals) |-> NewLabel]
  /\ literals_ = <<>>
  /\ phase = "assembling"
  /\ emitted = <<>>
  /\ chunks = 0

\* NewLiteral, up to the number of literals of this specification
NewPoolLiteral(size) ==
  /\ phase = "assembling"
  /\ Len(literals_) < MaxPoolLiterals
  /\ literals_' = Append(literals_, [size |-> size, label |-> LiteralLabel(Len(literals_) + 1)])
  /\ UNCHANGED <<buffer_size, branches_, labels, phase, emitted, chunks>>
  /\ UNCHANGED <<cpuVars, ccVars>>

NextLiteral ==
  \/ \E n \in CodeSizes : EmitCode(n)
  \/ BindLabel(1)
  \/ Bcond(1, FALSE, "kCondLE", "A0", "A1")
  \/ \E size \in {4, 8} : NewPoolLiteral(size)
  \/ \E t \in {"kLoadWord", "kLoadDoubleword"}, k \in 1..MaxPoolLiterals :
       LoadLiteral("A0", t, k)
  \/ FinalizeCode
  \/ PromotePass
  \/ FinalizeInstructions

SpecLiteral == InitLiteral /\ [][NextLiteral]_vars

LongLiterals == {k \in DOMAIN literals_ : literals_[k].size = 8}

LiteralLocation(k) == GetLabelLocation(branches_, labels, literals_[k].label)

PromotedBranches == {k \in DOMAIN branches_ : GetSize(branches_[k]) # GetOldSize(branches_[k])}

\* C15: after finalization every 8-byte literal starts at a multiple of 8
C15_LongLiteralsAligned ==
  phase \in {"promoted", "finalized"} =>
    \A k \in LongLiterals : LiteralLocation(k) % 8 = 0

\* the 8-byte literals are the end of the buffer, one after the other
C15_LongLiteralsAtEnd ==
  phase \in {"promoted", "finalized"} =>
    \A k \in LongLiterals :
      LiteralLocation(k) =
        buffer_size - 8 * Cardinality({j \in LongLiterals : j >= k})

\* two 8-byte literals after a 4-byte one and a promoted branch, moved down
C15_Witness ==
  /\ phase = "finalized"
  /\ Cardinality(LongLiterals) = 2
  /\ \E k \in DOMAIN literals_ : literals_[k].size = 4
  /\ PromotedBranches # {}
  /\ \E k \in LongLiterals : labels[literals_[k].label].moved = 4
  /\ \A k \in LongLiterals : LiteralLocation(k) % 8 = 0

(***************************************************************************)
(* Jump tables.  A table is its own label, the labels of its targets and   *)
(* the words its space in the buffer holds; the tables are kept in job.    *)
(***************************************************************************)
MaxJumpTables == 2

MaxTableSize == 2

\* Position() of the label of table t
JumpTableLabel(t) == MaxLabels + MaxPoolLiterals + t

\* 0x1abe1234, the dummy data of a reserved entry
SentinelWord == [lo |-> 4660, hi |-> 6846]

\* an entry that holds the location of the target itself
TableEntryAbsolute(target_location, start) == U32(target_location)

\* uint32_t offset = GetLabelLocation(target) - start
TableEntry(target_location, start) == U32(target_location - start)

\* each table is bound at the end of the buffer and its space filled with the
\* dummy data
RECURSIVE ReserveJumpTableSpace(_, _, _, _, _)
ReserveJumpTableSpace(bs, ls, size, tables, t) ==
  IF t > Len(tables) THEN [branches |-> bs, labels |-> ls, size |-> size, tables |-> tables]
  ELSE LET r == Bind(bs, ls, size, tables[t].label)
           cnt == Len(tables[t].labels_)
       IN ReserveJumpTableSpace(r.branches, r.labels, size + 4 * cnt,
                                [tables EXCEPT ![t].words = [i \in 1..cnt |-> SentinelWord]],
                                t + 1)

\* the entries of the tables, as pairs of a table and an index
TableSlots(tables) == {s \in (DOMAIN tables) \X (1..MaxTableSize) : s[2] <= Len(tables[s[1]].labels_)}

\* where the code moves of PromoteBranches have put the space of an entry
SlotLocation(tables, s) == FinalLabelLocation(tables[s[1]].label) + 4 * (s[2] - 1)

\* where EmitJumpTables writes an entry: overwrite_location_
OverwriteLocation(tables, s) ==
  GetLabelLocation(branches_, labels, tables[s[1]].label) + 4 * (s[2] - 1)

\* the entry whose space is at the location that entry s is written to
SlotsAt(tables, s) ==
  {u \in TableSlots(tables) : SlotLocation(tables, u) = OverwriteLocation(tables, s)}

\* GetLabelLocation checks that a target is bound; a word that is overwritten
\* is checked to hold the dummy data
EmitJumpTables(tables) ==
  LET slots == TableSlots(tables)
      unbound == \E s \in slots : labels[tables[s[1]].labels_[s[2]]].state # "bound"
      clash == \E s \in slots :
                 \/ SlotsAt(tables, s) = {}
                 \/ \E u \in slots : u # s /\ SlotsAt(tables, u) = SlotsAt(tables, s)
      writer(u) == CHOOSE s \in slots : u \in SlotsAt(tables, s)
      entry(s) == TableEntry(GetLabelLocation(branches_, labels, tables[s[1]].labels_[s[2]]),
                             GetLabelLocation(branches_, labels, tables[s[1]].label))
  IN IF unbound \/ clash THEN [fatal |-> TRUE, tables |-> tables]
     ELSE [fatal |-> FALSE,
           tables |-> [t \in DOMAIN tables |->
                         [tables[t] EXCEPT !.words = [i \in DOMAIN tables[t].words |->
                                                        entry(writer(<<t, i>>))]]]]

(***************************************************************************)
(* Specification SpecJumpTable: up to MaxJumpTables jump tables and code   *)
(* with labels, conditional branches and an 8-byte literal, then finalized.*)
(***************************************************************************)
\* the targets of a table: none, one label, two labels of which the later
\* comes first
TableTargets == {<<>>, <<1>>, <<2, 1>>}

InitJumpTable ==
  /\ regs = NoMem
  /\ mem = NoMem
  /\ code = <<>>
  /\ ip = 1
  /\ job = [op |-> "JumpTables", status |-> "idle", jump_tables_ |-> <<>>]
  /\ CcIdle
  /\ buffer_size = 0
  /\ branches_ = <<>>
  /\ labels = [l \in 1..(MaxLabels + MaxPoolLiterals + MaxJumpTables) |-> NewLabel]
  /\ literals_ = <<>>
  /\ phase = "assembling"
  /\ emitted = <<>>
  /\ chunks = 0

\* a table only refers to its labels, so the moment of its creation shows in
\* no later state: the tables are created before any code
CreateJumpTable(targets) ==
  /\ job.op = "JumpTables"
  /\ phase = "assembling"
  /\ buffer_size = 0 /\ branches_ = <<>> /\ literals_ = <<>>
  /\ \A l \in UserLabels : labels[l].state = "unused"
  /\ Len(job.jump_tables_) < MaxJumpTables
  /\ job' = [job EXCEPT !.jump_tables_ =
               Append(@, [label |-> JumpTableLabel(Len(job.jump_tables_) + 1),
                          labels_ |-> targets, words |-> <<>>])]
  /\ UNCHANGED <<regs, mem, code, ip>>
  /\ UNCHANGED <<asmVars, ccVars>>

\* FinalizeCode with jump tables, up to the first pass of PromoteBranches
FinalizeCodeWithJumpTables ==
  /\ job.op = "JumpTables"
  /\ phase = "assembling"
  /\ LET j == ReserveJumpTableSpace(branches_, labels, buffer_size, job.jump_tables_, 1)
         r == EmitLiterals(j.branches, j.labels, j.size)
     IN /\ branches_' = r.branches
        /\ labels' = r.labels
        /\ buffer_size' = r.size
        /\ job' = [job EXCEPT !.jump_tables_ = j.tables]
  /\ phase' = "promoting"
  /\ UNCHANGED <<literals_, emitted, chunks>>
  /\ UNCHANGED <<regs, mem, code, ip>>
  /\ UNCHANGED ccVars

\* FinalizeInstructions with jump tables: EmitBranches, then EmitJumpTables
FinalizeInstructionsWithJumpTables ==
  /\ job.op = "JumpTables"
  /\ phase = "promoted"
  /\ LET bad == {k \in DOMAIN branches_ : EmitBranch(branches_[k]).fatal}
         stop == IF bad = {} THEN Len(branches_) + 1
                 ELSE CHOOSE k \in bad : \A j \in bad : k <= j
         e == EmitJumpTables(job.jump_tables_)
     IN /\ emitted' = [k \in 1..(stop - 1) |-> EmitBranch(branches_[k]).words]
        /\ phase' = IF bad = {} /\ ~e.fatal THEN "finalized" ELSE "fatal"
        /\ job' = IF bad = {} /\ ~e.fatal THEN [job EXCEPT !.jump_tables_ = e.tables] ELSE job
  /\ UNCHANGED <<buffer_size, branches_, labels, literals_, chunks>>
  /\ UNCHANGED <<regs, mem, code, ip>>
  /\ UNCHANGED ccVars

NextJumpTable ==
  \/ \E n \in CodeSizes : EmitCode(n)
  \/ \E l \in UserLabels : BindLabel(l)
  \/ \E l \in UserLabels : Bcond(l, FALSE, "kCondLE", "A0", "A1")
  \/ NewLiteral(8)
  \/ \E targets \in TableTargets : CreateJumpTable(targets)
  \/ FinalizeCodeWithJumpTables
  \/ PromotePass
  \/ FinalizeInstructionsWithJumpTables

SpecJumpTable == InitJumpTable /\ [][NextJumpTable]_vars

JumpTablesFinalized == job.op = "JumpTables" /\ phase = "finalized"

\* C16: after finalization every entry of a jump table is the final location
\* of its target minus the final location of the start of its table, and no
\* entry still holds the dummy data
C16_JumpTableEntries ==
  JumpTablesFinalized =>
    \A t \in DOMAIN job.jump_tables_ :
      LET table == job.jump_tables_[t]
      IN /\ Len(table.words) = Len(table.labels_)
         /\ \A i \in DOMAIN table.words :
              /\ table.words[i] = U32(FinalLabelLocation(table.labels_[i])
                                      - FinalLabelLocation(table.label))
              /\ table.words[i] # SentinelWord

\* an unbound target stops the finalization
C16_TargetsBound ==
  JumpTablesFinalized =>
    \A t \in DOMAIN job.jump_tables_ :
      \A i \in DOMAIN job.jump_tables_[t].labels_ :
        labels[job.jump_tables_[t].labels_[i]].state = "bound"

\* two tables, one with two targets, after code in which a branch was promoted
\* between the targets
C16_Witness ==
  /\ JumpTablesFinalized
  /\ Len(job.jump_tables_) = 2
  /\ \E t \in DOMAIN job.jump_tables_ :
       /\ Len(job.jump_tables_[t].words) = 2
       /\ job.jump_tables_[t].words[1] # job.jump_tables_[t].words[2]
  /\ \E k \in DOMAIN branches_ : Promoted(k)
  /\ \E l \in UserLabels :
       labels[l].state = "bound" /\ FinalLabelLocation(l) # labels[l].bound_pc

(***************************************************************************)
(* The return-address slot of a @CriticalNative out frame.                 *)
(***************************************************************************)
CriticalNativeFrameBuilt ==
  cc.conv = "jni" /\ cc.frame = "current" /\ cc.is_critical_native

CheckedManagedCurrentParamStackOffset(displacement_, itr_args_, itr_float_and_doubles_, itr_slots_, is_fp) ==
  IF ManagedIsCurrentParamInRegister(itr_args_, itr_float_and_doubles_, is_fp)
    THEN [fatal |-> TRUE, offset |-> 0]
    ELSE [fatal |-> FALSE, offset |-> displacement_ + kFramePointerSize + itr_slots_ * 4]

\* no CHECK: the slot among the in args, for any parameter
ManagedCurrentParamStackOffset(displacement_, itr_args_, itr_float_and_doubles_, itr_slots_, is_fp) ==
  [fatal |-> FALSE, offset |-> displacement_ + kFramePointerSize + itr_slots_ * 4]

Min(a, b) == IF a < b THEN a ELSE b

\* CHECK(IsCurrentParamOnStack()), and CHECK_LT(offset, OutFrameSize()) on a size_t
JniCurrentParamStackOffset(c, displacement_, itr_args_, itr_float_and_doubles_, is_fp) ==
  LET gp_args == itr_args_ - itr_float_and_doubles_
      can_spilled_to_gp == IF gp_args < 8 THEN 8 - gp_args ELSE 0
      args_on_stack ==
        itr_args_ - Min(kMaxIntLikeRegisterArguments, gp_args)
          - Min(kMaxFloatOrDoubleRegisterArguments + can_spilled_to_gp, itr_float_and_doubles_)
      offset == displacement_ - OutFrameSize(c) + args_on_stack * kFramePointerSize
  IN IF JniIsCurrentParamInRegister(itr_args_, itr_float_and_doubles_, is_fp)
       THEN [fatal |-> TRUE, offset |-> 0]
     ELSE IF offset < 0 \/ offset >= OutFrameSize(c)
       THEN [fatal |-> TRUE, offset |-> 0]
     ELSE [fatal |-> FALSE, offset |-> offset]

\* the frame of the caller is 0 or 64 bytes below the in args; the out args
\* of a native call are addressed from the end of the out frame
Displacements(c) == IF c.conv = "managed" THEN {0, 64} ELSE {OutFrameSize(c)}

InitAccessor ==
  /\ regs = NoMem
  /\ mem = NoMem
  /\ code = <<>>
  /\ ip = 1
  /\ AsmIdle
  /\ \E k \in Conventions, num_fp \in 0..MaxFpArgs, num_int \in 0..MaxIntArgs :
       LET c == NewConvention(k, "V", num_fp, num_int, "end")
       IN \E cur \in ParamKinds(c, 0, 0), d \in Displacements(c) :
            /\ cc = [c EXCEPT !.cur = cur]
            /\ job = [op |-> "Accessor", displacement_ |-> d, itr_slots_ |-> 0,
                      call |-> "none", fatal |-> FALSE, reg |-> "none", offset |-> 0]

CurrentParamInRegister ==
  IF cc.conv = "managed"
    THEN ManagedIsCurrentParamInRegister(cc.itr_args_, cc.itr_float_and_doubles_,
                                         IsCurrentParamAFloatOrDouble(cc))
    ELSE JniIsCurrentParamInRegister(cc.itr_args_, cc.itr_float_and_doubles_,
                                     IsCurrentParamAFloatOrDouble(cc))

\* CurrentParamRegister(), whatever IsCurrentParamInRegister() says
CallCurrentParamRegister ==
  /\ job.op = "Accessor"
  /\ job.call = "none"
  /\ cc.cur # "end"
  /\ LET is_fp == IsCurrentParamAFloatOrDouble(cc)
         r == IF cc.conv = "managed"
                THEN ManagedCurrentParamRegister(cc.itr_args_, cc.itr_float_and_doubles_, is_fp)
                ELSE JniCurrentParamRegister(cc.itr_args_, cc.itr_float_and_doubles_, is_fp)
     IN job' = [job EXCEPT !.call = "register", !.fatal = r.fatal, !.reg = r.reg]
  /\ UNCHANGED <<regs, mem, code, ip>>
  /\ UNCHANGED <<asmVars, ccVars>>

\* CurrentParamStackOffset(), whatever IsCurrentParamOnStack() says
CallCurrentParamStackOffset ==
  /\ job.op = "Accessor"
  /\ job.call = "none"
  /\ cc.cur # "end"
  /\ LET is_fp == IsCurrentParamAFloatOrDouble(cc)
         r == IF cc.conv = "managed"
                THEN ManagedCurrentParamStackOffset(job.displacement_, cc.itr_args_,
                                                    cc.itr_float_and_doubles_,
                                                    job.itr_slots_, is_fp)
                ELSE JniCurrentParamStackOffset(cc, job.displacement_, cc.itr_args_,
                                                cc.itr_float_and_doubles_, is_fp)
     IN job' = [job EXCEPT !.call = "stack", !.fatal = r.fatal, !.offset = r.offset]
  /\ UNCHANGED <<regs, mem, code, ip>>
  /\ UNCHANGED <<asmVars, ccVars>>

\* Next(), after no call or after a call that returned
AccessorNext ==
  /\ job.op = "Accessor"
  /\ HasNext(cc)
  /\ ~job.fatal
  /\ LET is_fp == IsCurrentParamAFloatOrDouble(cc)
         fp == cc.itr_float_and_doubles_ + (IF is_fp THEN 1 ELSE 0)
     IN /\ \E cur \in ParamKinds(cc, cc.itr_args_ + 1, fp) :
             cc' = [cc EXCEPT !.itr_args_ = cc.itr_args_ + 1,
                              !.itr_float_and_doubles_ = fp,
                              !.cur = cur]
        /\ job' = [job EXCEPT !.itr_slots_ = job.itr_slots_ + (IF is_fp THEN 2 ELSE 1),
                              !.call = "none", !.reg = "none", !.offset = 0]
  /\ UNCHANGED <<regs, mem, code, ip>>
  /\ UNCHANGED asmVars

NextAccessor ==
  \/ CallCurrentParamRegister
  \/ CallCurrentParamStackOffset
  \/ AccessorNext

SpecAccessor == InitAccessor /\ [][NextAccessor]_vars

AccessorCalled(call) == job.op = "Accessor" /\ job.call = call

C18_RightAccessorReturns ==
  /\ (AccessorCalled("register") /\ CurrentParamInRegister) => (~job.fatal /\ job.reg # "none")
  /\ (AccessorCalled("stack") /\ ~CurrentParamInRegister) => ~job.fatal

C18_RegisterCallFails ==
  /\ AccessorCalled("register")
  /\ cc.conv = "jni"
  /\ ~CurrentParamInRegister
  /\ job.fatal

\* the first parameter of a native method: CurrentParamStackOffset fails
C18_JniOffsetCallFails ==
  /\ AccessorCalled("stack")
  /\ cc.conv = "jni"
  /\ CurrentParamInRegister
  /\ job.fatal

(***************************************************************************)
(* Riscv64JNIMacroAssembler::MoveArguments.  An argument location is a     *)
(* register or a frame offset; a 64-bit mask is the set of its bits; the   *)
(* Store, Copy, Move and Load it emits are run, in the order of emission,  *)
(* on locations that each hold their own name at the start.                *)
(***************************************************************************)
IndexOf(seq, x) == CHOOSE i \in 1..Len(seq) : seq[i] = x

\* the numbers of the argument registers: A0 is x10, FA0 is f10
AsGpuRegister(reg) == 9 + IndexOf(kGpuArgumentRegisters, reg)

AsFpuRegister(reg) == 9 + IndexOf(kFpuArgumentRegisters, reg)

IsGpuRegister(reg) == \E i \in 1..Len(kGpuArgumentRegisters) : kGpuArgumentRegisters[i] = reg

\* one bit per register for both kinds
get_mask_one_bank(reg) ==
  IF IsGpuRegister(reg) THEN {AsGpuRegister(reg)} ELSE {AsFpuRegister(reg)}

\* UINT64_C(1) << core_reg_number, or (UINT64_C(1) << 32u) << fp_reg_number
get_mask(reg) ==
  IF IsGpuRegister(reg) THEN {AsGpuRegister(reg)} ELSE {32 + AsFpuRegister(reg)}

RegisterLocation(reg) == [is_register |-> TRUE, reg |-> reg, offset |-> 0]

FrameLocation(offset) == [is_register |-> FALSE, reg |-> "none", offset |-> offset]

MoveRegisters == {"A0", "A1", "A2", "FA0"}

\* the in args lie above the frame, the out args at its bottom
SrcLocations ==
  {RegisterLocation(r) : r \in MoveRegisters} \cup {FrameLocation(o) : o \in {64, 72}}

DestLocations ==
  {RegisterLocation(r) : r \in MoveRegisters} \cup {FrameLocation(o) : o \in {0, 8}}

MaxMoves == 3

\* every argument has a location of its own on either side
Injective(seq) == \A i, j \in 1..Len(seq) : seq[i] = seq[j] => i = j

InitMove ==
  /\ regs = NoMem
  /\ mem = NoMem
  /\ code = <<>>
  /\ ip = 1
  /\ AsmIdle
  /\ CcIdle
  /\ \E n \in 0..MaxMoves :
       \E srcs \in [1..n -> SrcLocations], dests \in [1..n -> DestLocations] :
         /\ Injective(srcs)
         /\ Injective(dests)
         /\ job = [op |-> "MoveArguments", pc |-> IF n = 0 THEN "test" ELSE "store", i |-> 1,
                   srcs |-> srcs, dests |-> dests,
                   src_regs |-> {}, dest_regs |-> {}, old_dest_regs |-> {},
                   vals |-> [l \in SrcLocations \cup DestLocations |-> l],
                   done |-> {}, clobbered |-> FALSE, passes |-> 0]

\* the moves whose source has still to be read
Pending(j) == (1..Len(j.srcs)) \ j.done

\* writing dest overwrites the source of a move other than i that has still to be made
Clobbers(j, i, dest) ==
  \E k \in Pending(j) \ {i} : j.srcs[k] = dest /\ j.srcs[k] # j.dests[k]

\* Store, Copy, Move and Load: dest takes the value of src
Transfer(j, i) ==
  [j EXCEPT !.vals[j.dests[i]] = j.vals[j.srcs[i]],
            !.done = j.done \cup {i},
            !.clobbered = j.clobbered \/ Clobbers(j, i, j.dests[i])]

\* one turn of the first loop: the registers to move are collected and the
\* stack slots are written
CollectStep ==
  /\ job.op = "MoveArguments"
  /\ job.pc = "store"
  /\ LET i == job.i
         src == job.srcs[i]
         dest == job.dests[i]
         after ==
           IF dest.is_register
             THEN IF src.is_register /\ src.reg = dest.reg
                    THEN [job EXCEPT !.done = job.done \cup {i}]
                    ELSE [job EXCEPT
                            !.src_regs = IF src.is_register
                                           THEN job.src_regs \cup get_mask(src.reg)
                                           ELSE job.src_regs,
                            !.dest_regs = job.dest_regs \cup get_mask(dest.reg)]
             ELSE Transfer(job, i)
     IN job' = [after EXCEPT !.i = i + 1,
                             !.pc = IF i = Len(job.srcs) THEN "test" ELSE "store"]
  /\ UNCHANGED <<regs, mem, code, ip>>
  /\ UNCHANGED <<asmVars, ccVars>>

\* while (dest_regs != 0u) { uint64_t old_dest_regs = dest_regs; ...
WhileTest ==
  /\ job.op = "MoveArguments"
  /\ job.pc = "test"
  /\ job' = IF job.dest_regs = {}
              THEN [job EXCEPT !.pc = "done"]
              ELSE [job EXCEPT !.pc = "fill", !.i = 1, !.old_dest_regs = job.dest_regs]
  /\ UNCHANGED <<regs, mem, code, ip>>
  /\ UNCHANGED <<asmVars, ccVars>>

\* one turn of the loop that fills destination registers
FillStep ==
  /\ job.op = "MoveArguments"
  /\ job.pc = "fill"
  /\ job.i <= Len(job.srcs)
  /\ LET i == job.i
         src == job.srcs[i]
         dest == job.dests[i]
         after ==
           IF ~dest.is_register THEN job
           ELSE IF get_mask(dest.reg) \cap job.dest_regs = {} THEN job
           ELSE IF get_mask(dest.reg) \cap job.src_regs # {} THEN job
           ELSE LET moved == Transfer(job, i)
                IN [moved EXCEPT
                      !.src_regs = IF src.is_register
                                     THEN job.src_regs \ get_mask(src.reg)
                                     ELSE job.src_regs,
                      !.dest_regs = job.dest_regs \ get_mask(dest.reg)]
     IN job' = [after EXCEPT !.i = i + 1]
  /\ UNCHANGED <<regs, mem, code, ip>>
  /\ UNCHANGED <<asmVars, ccVars>>

\* CHECK_NE(old_dest_regs, dest_regs) at the end of a pass
PassEnd ==
  /\ job.op = "MoveArguments"
  /\ job.pc = "fill"
  /\ job.i > Len(job.srcs)
  /\ job' = IF job.old_dest_regs = job.dest_regs
              THEN [job EXCEPT !.pc = "fatal"]
              ELSE [job EXCEPT !.pc = "test", !.passes = job.passes + 1]
  /\ UNCHANGED <<regs, mem, code, ip>>
  /\ UNCHANGED <<asmVars, ccVars>>

NextMove ==
  \/ CollectStep
  \/ WhileTest
  \/ FillStep
  \/ PassEnd

SpecMove == InitMove /\ [][NextMove]_vars

MoveJob == job.op = "MoveArguments"

\* the moves between two different registers
RegisterMoves(j) ==
  {k \in 1..Len(j.srcs) : j.srcs[k].is_register /\ j.dests[k].is_register
                            /\ j.srcs[k] # j.dests[k]}

\* following the moves from destination to source comes back to the start
RECURSIVE ReachesBack(_, _, _, _)
ReachesBack(j, start, k, steps) ==
  IF steps = 0 THEN FALSE
  ELSE \E n \in RegisterMoves(j) :
         /\ j.dests[n] = j.srcs[k]
         /\ (n = start \/ ReachesBack(j, start, n, steps - 1))

HasCycle(j) == \E k \in RegisterMoves(j) : ReachesBack(j, k, k, Len(j.srcs))

C19_CycleIsFatal == (MoveJob /\ HasCycle(job)) => job.pc # "done"

C19_WitnessCycle ==
  /\ MoveJob
  /\ job.pc = "fatal"
  /\ Len(job.srcs) = 2
  /\ job.dests[1] = job.srcs[2]
  /\ job.dests[2] = job.srcs[1]
  /\ job.vals = [l \in SrcLocations \cup DestLocations |-> l]

(***************************************************************************)
(* The invoke-direct and invoke-super handlers of the interpreter.  The    *)
(* instruction's word at 4(rPC) names the argument registers; the frame    *)
(* holds a reference, or 0 for null, in each register.                     *)
(***************************************************************************)
\* the handler without the test of the receiver
invoke_unchecked(helper, range, is_super, st) ==
  IF st.cache_hit \/ is_super \/ st.method % 2 = 0
    THEN [target |-> helper, eax |-> IF st.cache_hit THEN st.cached ELSE st.method,
          ecx |-> st.vregs[IF range THEN st.arguments ELSE st.arguments % 16]]
    ELSE [target |-> IF range THEN "NterpHandleStringInitRange" ELSE "NterpHandleStringInit",
          eax |-> st.method - 1, ecx |-> st.ecx]

\* where the handler leaves, with the method in eax and the receiver in ecx
\* (the jump to the string-init handlers has not loaded it);
\* st is the thread's cache entry for the instruction, the method that
\* nterp_get_method returns, the word at 4(rPC) and the frame
invoke_direct_or_super(helper, range, is_super, st) ==
  LET index == IF range THEN st.arguments ELSE st.arguments % 16
      receiver == st.vregs[index]
      label_1(eax) ==
        IF receiver = 0
          THEN [target |-> "common_errNullObject", eax |-> eax, ecx |-> receiver]
          ELSE [target |-> helper, eax |-> eax, ecx |-> receiver]
  IN IF st.cache_hit
       THEN label_1(st.cached)
     ELSE IF is_super
       THEN label_1(st.method)
     ELSE IF st.method % 2 = 0
       THEN label_1(st.method)
     ELSE [target |-> IF range THEN "NterpHandleStringInitRange" ELSE "NterpHandleStringInit",
           eax |-> st.method - 1, ecx |-> st.ecx]

op_invoke_direct(st) == invoke_direct_or_super("NterpCommonInvokeInstance", FALSE, FALSE, st)

op_invoke_direct_range(st) ==
  invoke_direct_or_super("NterpCommonInvokeInstanceRange", TRUE, FALSE, st)

op_invoke_super(st) == invoke_direct_or_super("NterpCommonInvokeInstance", FALSE, TRUE, st)

op_invoke_super_range(st) ==
  invoke_direct_or_super("NterpCommonInvokeInstanceRange", TRUE, TRUE, st)

\* a method, and the same with the bit that marks a String.<init> method
Methods == {4096, 4097}

\* the word at 4(rPC): registers 0, 1, 17 and 18 lead the range forms, and
\* 0, 1, 1 and 2 are the low four bits for the plain forms
ArgumentWords == {0, 1, 17, 18}

\* the registers the receiver can be read from
ReceiverRegisters == {r \in 0..18 : \E w \in ArgumentWords : r = w \/ r = w % 16}

References20 == {0, 28672}

InvokeOpcodes ==
  {"invoke-direct", "invoke-direct/range", "invoke-super", "invoke-super/range"}

InitInvoke ==
  /\ regs = NoMem
  /\ mem = NoMem
  /\ code = <<>>
  /\ ip = 1
  /\ AsmIdle
  /\ CcIdle
  /\ \E opcode \in InvokeOpcodes, arguments \in ArgumentWords, cache_hit \in BOOLEAN,
        method \in Methods, vregs \in [ReceiverRegisters -> References20] :
       job = [op |-> "Invoke", opcode |-> opcode, arguments |-> arguments,
              cache_hit |-> cache_hit, cached |-> IF cache_hit THEN method ELSE 0,
              method |-> method, vregs |-> vregs,
              target |-> "none", eax |-> 0, ecx |-> 0]

\* the handler of the opcode at rPC runs to the jump that leaves it
Handle(opcode, out) ==
  /\ job.op = "Invoke"
  /\ job.opcode = opcode
  /\ job.target = "none"
  /\ job' = [job EXCEPT !.target = out.target, !.eax = out.eax, !.ecx = out.ecx]
  /\ UNCHANGED <<regs, mem, code, ip>>
  /\ UNCHANGED <<asmVars, ccVars>>

NextInvoke ==
  \/ Handle("invoke-direct", op_invoke_direct(job))
  \/ Handle("invoke-direct/range", op_invoke_direct_range(job))
  \/ Handle("invoke-super", op_invoke_super(job))
  \/ Handle("invoke-super/range", op_invoke_super_range(job))

SpecInvoke == InitInvoke /\ [][NextInvoke]_vars

InvokeDone == job.op = "Invoke" /\ job.target # "none"

IsRange == job.opcode \in {"invoke-direct/range", "invoke-super/range"}

\* the first argument register of the instruction
Receiver == job.vregs[IF IsRange THEN job.arguments ELSE job.arguments % 16]

DispatchHelpers == {"NterpCommonInvokeInstance", "NterpCommonInvokeInstanceRange"}

StringInitHandlers == {"NterpHandleStringInit", "NterpHandleStringInitRange"}

\* invoke-direct, no cache entry, and nterp_get_method returns a marked method
StringInitCase ==
  job.opcode \in {"invoke-direct", "invoke-direct/range"} /\ ~job.cache_hit
    /\ job.method % 2 = 1

\* C20 as stated: in all four handlers, cache hit or miss, a null receiver
\* ends at common_errNullObject, and no helper is reached with a null receiver
C20_NullReceiverIsError ==
  InvokeDone =>
    /\ Receiver = 0 => job.target = "common_errNullObject"
    /\ job.target # "common_errNullObject" => Receiver # 0

\* C20 as the code has it: a null receiver ends at common_errNullObject
\* except when invoke-direct misses the cache and the method is marked as
\* String.<init>, which goes to the string-init handler without reading the
\* receiver; the invoke helpers are reached only with the non-null receiver
\* of the instruction's form in ecx
C20_NullReceiverIsErrorButStringInit ==
  InvokeDone =>
    /\ (Receiver = 0 /\ ~StringInitCase) => job.target = "common_errNullObject"
    /\ StringInitCase =>
         /\ job.target = (IF IsRange THEN "NterpHandleStringInitRange"
                                     ELSE "NterpHandleStringInit")
         /\ job.eax = job.method - 1
    /\ job.target \in DispatchHelpers =>
         /\ Receiver # 0
         /\ job.ecx = Receiver
         /\ job.target = (IF IsRange THEN "NterpCommonInvokeInstanceRange"
                                     ELSE "NterpCommonInvokeInstance")
    /\ job.target \in DispatchHelpers \cup StringInitHandlers \cup {"common_errNullObject"}

\* invoke-direct/range with v17 null, after a cache miss and a String.<init>
\* method: the string-init handler is reached
C20_Witness ==
  /\ InvokeDone
  /\ job.opcode = "invoke-direct/range"
  /\ job.arguments = 17
  /\ Receiver = 0
  /\ job.vregs[1] # 0
  /\ StringInitCase
  /\ job.target = "NterpHandleStringInitRange"

\* invoke-super with v1 null and v17 not, the method coming from the cache
C20_WitnessNull ==
  /\ InvokeDone
  /\ job.opcode = "invoke-super"
  /\ job.arguments = 17
  /\ job.cache_hit
  /\ job.vregs[1] = 0 /\ job.vregs[17] # 0
  /\ job.target = "common_errNullObject"

(***************************************************************************)
(* The invoke-interface handlers.  The resolved value is an ArtMethod      *)
(* address with two tag bits; the receiver's class holds the interface     *)
(* method table.                                                           *)
(***************************************************************************)
ArtMethods == {4096, 4160}

\* the 16-bit fields of the ArtMethods; an address that is no ArtMethod
\* reads as a field of neither
ArtMethodImtIndex(method) ==
  CASE method = 4096 -> 1 [] method = 4160 -> 6 [] OTHER -> 0

ArtMethodMethodIndex(method) ==
  CASE method = 4096 -> 13 [] method = 4160 -> 2 [] OTHER -> 0

\* the mask of the table index, a power of two less one; here a table of 8
ART_METHOD_IMT_MASK == 7

\* andl $$ART_METHOD_IMT_MASK, %eax
ImtMask(value) == value % (ART_METHOD_IMT_MASK + 1)

\* the receivers and their classes
InterfaceReceivers == {28672, 28704}

ObjectClass(object) == object + 32768

\* the entry of a class's interface method table
ImtEntry(class, index) == class * 16 + index

\* op_invoke_interface_slow_path: nterp_get_method leaves the method in eax
op_invoke_interface_slow_path(st) == st.method

\* the default-method path with the tag bits left in place
invoke_interface_tagged(helper, range, st) ==
  LET fetched == IF st.cache_hit THEN st.cached ELSE op_invoke_interface_slow_path(st)
      ecx == st.vregs[IF range THEN st.arguments ELSE st.arguments % 16]
      edx == ObjectClass(ecx)
  IN IF fetched % 4 = 0
       THEN [target |-> helper, xmm7 |-> fetched,
             eax |-> ImtEntry(edx, ArtMethodImtIndex(fetched)), ecx |-> ecx]
     ELSE IF fetched % 2 = 1
       THEN [target |-> IF range THEN "NterpHandleInvokeInterfaceOnObjectMethodRange"
                                 ELSE "NterpHandleInvokeInterfaceOnObjectMethod",
             xmm7 |-> st.xmm7, eax |-> fetched, ecx |-> ecx]
     ELSE [target |-> helper, xmm7 |-> fetched,
           eax |-> ImtEntry(edx, ImtMask(ArtMethodMethodIndex(fetched))), ecx |-> ecx]

\* where the handler leaves: the method of the table in eax, the interface
\* method in xmm7, the receiver in ecx
invoke_interface(helper, range, st) ==
  LET fetched == IF st.cache_hit THEN st.cached ELSE op_invoke_interface_slow_path(st)
      ecx == st.vregs[IF range THEN st.arguments ELSE st.arguments % 16]
      edx == ObjectClass(ecx)
      label_1(index) == ImtEntry(edx, index)
  IN IF fetched % 4 = 0
       THEN [target |-> helper, xmm7 |-> fetched,
             eax |-> label_1(ArtMethodImtIndex(fetched)), ecx |-> ecx]
     ELSE IF fetched % 2 = 1
       THEN [target |-> IF range THEN "NterpHandleInvokeInterfaceOnObjectMethodRange"
                                 ELSE "NterpHandleInvokeInterfaceOnObjectMethod",
             xmm7 |-> st.xmm7, eax |-> fetched, ecx |-> ecx]
     ELSE LET untagged == fetched - (fetched % 4)
          IN [target |-> helper, xmm7 |-> untagged,
              eax |-> label_1(ImtMask(ArtMethodMethodIndex(untagged))), ecx |-> ecx]

op_invoke_interface(st) == invoke_interface("NterpCommonInvokeInterface", FALSE, st)

op_invoke_interface_range(st) == invoke_interface("NterpCommonInvokeInterfaceRange", TRUE, st)

InterfaceOpcodes == {"invoke-interface", "invoke-interface/range"}

\* the word at 4(rPC): v1 leads the plain form, v1 or v17 the range form
InterfaceArgumentWords == {1, 17}

InitInterface ==
  /\ regs = NoMem
  /\ mem = NoMem
  /\ code = <<>>
  /\ ip = 1
  /\ AsmIdle
  /\ CcIdle
  /\ \E opcode \in InterfaceOpcodes, arguments \in InterfaceArgumentWords,
        cache_hit \in BOOLEAN, method \in ArtMethods, tag \in 0..3,
        vregs \in [InterfaceArgumentWords -> InterfaceReceivers] :
       job = [op |-> "InvokeInterface", opcode |-> opcode, arguments |-> arguments,
              cache_hit |-> cache_hit, cached |-> IF cache_hit THEN method + tag ELSE 0,
              method |-> method + tag, vregs |-> vregs,
              target |-> "none", eax |-> 0, ecx |-> 0, xmm7 |-> 0]

HandleInterface(opcode, out) ==
  /\ job.op = "InvokeInterface"
  /\ job.opcode = opcode
  /\ job.target = "none"
  /\ job' = [job EXCEPT !.target = out.target, !.eax = out.eax, !.ecx = out.ecx,
                        !.xmm7 = out.xmm7]
  /\ UNCHANGED <<regs, mem, code, ip>>
  /\ UNCHANGED <<asmVars, ccVars>>

NextInterface ==
  \/ HandleInterface("invoke-interface", op_invoke_interface(job))
  \/ HandleInterface("invoke-interface/range", op_invoke_interface_range(job))

SpecInterface == InitInterface /\ [][NextInterface]_vars

InterfaceDone == job.op = "InvokeInterface" /\ job.target # "none"

InterfaceIsRange == job.opcode = "invoke-interface/range"

InterfaceReceiver ==
  job.vregs[IF InterfaceIsRange THEN job.arguments ELSE job.arguments % 16]

InterfaceHelper ==
  IF InterfaceIsRange THEN "NterpCommonInvokeInterfaceRange" ELSE "NterpCommonInvokeInterface"

\* bit i of the resolved value
MethodBit(i) == (job.method \div (2 ^ i)) % 2

\* the table index taken from the 3 low bits of a 16-bit field
LowBits(value) ==
  (value % 2) + 2 * ((value \div 2) % 2) + 4 * ((value \div 4) % 2)

\* C21: with both low bits of the resolved method clear the handler looks up
\* the receiver class's interface method table at the method's IMT index;
\* with bit 0 set it goes to the handler for methods of the base object type;
\* with bit 1 set and bit 0 clear it clears the tag bits, takes the method's
\* own index masked to the table size and uses the same table lookup
C21_TagBitsSelectPath ==
  InterfaceDone =>
    /\ (MethodBit(0) = 0 /\ MethodBit(1) = 0) =>
         /\ job.target = InterfaceHelper
         /\ job.xmm7 = job.method
         /\ job.eax = ImtEntry(ObjectClass(InterfaceReceiver), ArtMethodImtIndex(job.method))
    /\ MethodBit(0) = 1 =>
         job.target = (IF InterfaceIsRange
                         THEN "NterpHandleInvokeInterfaceOnObjectMethodRange"
                         ELSE "NterpHandleInvokeInterfaceOnObjectMethod")
    /\ (MethodBit(1) = 1 /\ MethodBit(0) = 0) =>
         /\ job.target = InterfaceHelper
         /\ job.xmm7 = job.method - 2
         /\ job.xmm7 \in ArtMethods
         /\ job.eax = ImtEntry(ObjectClass(InterfaceReceiver),
                               LowBits(ArtMethodMethodIndex(job.method - 2)))
    /\ job.ecx = InterfaceReceiver

\* a default method whose own index, 13, is beyond the table: entry 5 of the
\* class of v17 is called, after a cache miss
C21_Witness ==
  /\ InterfaceDone
  /\ InterfaceIsRange
  /\ ~job.cache_hit
  /\ job.arguments = 17
  /\ job.vregs[1] # job.vregs[17]
  /\ job.method = 4098
  /\ job.xmm7 = 4096
  /\ job.eax = ImtEntry(ObjectClass(job.vregs[17]), 5)
  /\ job.target = "NterpCommonInvokeInterfaceRange"

(***************************************************************************)
(* Riscv64Context: gprs_ and fprs_ hold, for each register, the address of *)
(* the slot with its value, or null.  A failed CHECK is fatal in every     *)
(* build, a DCHECK only in a debug build; reading through a null pointer   *)
(* is undefined: the read faults, or some value comes back.                *)
(***************************************************************************)
kNumberOfGpuRegisters == 32

kNumberOfFpuRegisters == 32

nullptr == 0

\* the slot of a register, where it has one
SlotOf(accessible, reg) == IF reg \in accessible THEN 4096 + 8 * reg ELSE nullptr

\* the value in a slot
SlotValue(address) == address + 7

IsAccessibleGPR(ctx, reg) == ctx.gprs_[reg] # nullptr

IsAccessibleFPR(ctx, reg) == ctx.fprs_[reg] # nullptr

\* what a read through the pointer gives
Dereference(pointer) ==
  IF pointer = nullptr
    THEN {[outcome |-> "fault", value |-> 0]} \cup
         {[outcome |-> "returned", value |-> v] : v \in {0, 4103}}
    ELSE {[outcome |-> "returned", value |-> SlotValue(pointer)]}

\* the outcomes of GetGPR(reg)
GetGPR(ctx, reg) ==
  IF ~(reg < kNumberOfGpuRegisters)
    THEN {[outcome |-> "fatal", value |-> 0]}
  ELSE IF ctx.kIsDebugBuild /\ ~IsAccessibleGPR(ctx, reg)
    THEN {[outcome |-> "fatal", value |-> 0]}
  ELSE Dereference(ctx.gprs_[reg])

\* the outcomes of GetFPR(reg)
GetFPR(ctx, reg) ==
  IF ~(reg < kNumberOfFpuRegisters)
    THEN {[outcome |-> "fatal", value |-> 0]}
  ELSE IF ctx.kIsDebugBuild /\ ~IsAccessibleFPR(ctx, reg)
    THEN {[outcome |-> "fatal", value |-> 0]}
  ELSE Dereference(ctx.fprs_[reg])

\* the registers with a slot: SP, A0 and the PC alone, those and the callee
\* saves S0..S11 and RA, or every register
AccessibleGprSets ==
  { {2, 10, 31}, {1, 2, 8, 9, 10, 31} \cup (18..27), 0..32 }

AccessibleFprSets == { {}, {8, 9} \cup (18..27) }

\* the registers asked for: the first and last, some in between, and the
\* first two that are none
AskedRegisters == {0, 1, 2, 8, 10, 18, 31, 32, 33}

InitContext ==
  /\ regs = NoMem
  /\ mem = NoMem
  /\ code = <<>>
  /\ ip = 1
  /\ AsmIdle
  /\ CcIdle
  /\ \E debug \in BOOLEAN, g \in AccessibleGprSets, f \in AccessibleFprSets :
       job = [op |-> "Context", kIsDebugBuild |-> debug,
              gprs_ |-> [r \in 0..kNumberOfGpuRegisters |-> SlotOf(g, r)],
              fprs_ |-> [r \in 0..(kNumberOfFpuRegisters - 1) |-> SlotOf(f, r)],
              call |-> "none", reg |-> 0, outcome |-> "none", value |-> 0]

CallGetGPR(reg) ==
  /\ job.op = "Context"
  /\ job.call = "none"
  /\ \E r \in GetGPR(job, reg) :
       job' = [job EXCEPT !.call = "GetGPR", !.reg = reg,
                          !.outcome = r.outcome, !.value = r.value]
  /\ UNCHANGED <<regs, mem, code, ip>>
  /\ UNCHANGED <<asmVars, ccVars>>

CallGetFPR(reg) ==
  /\ job.op = "Context"
  /\ job.call = "none"
  /\ \E r \in GetFPR(job, reg) :
       job' = [job EXCEPT !.call = "GetFPR", !.reg = reg,
                          !.outcome = r.outcome, !.value = r.value]
  /\ UNCHANGED <<regs, mem, code, ip>>
  /\ UNCHANGED <<asmVars, ccVars>>

NextContext ==
  \/ \E reg \in AskedRegisters : CallGetGPR(reg)
  \/ \E reg \in AskedRegisters : CallGetFPR(reg)

SpecContext == InitContext /\ [][NextContext]_vars

\* the register asked for is one whose slot pointer is null
AskedInaccessible ==
  /\ job.op = "Context"
  /\ job.call # "none"
  /\ IF job.call = "GetGPR"
       THEN job.reg < kNumberOfGpuRegisters /\ job.gprs_[job.reg] = nullptr
       ELSE job.reg < kNumberOfFpuRegisters /\ job.fprs_[job.reg] = nullptr

\* C22: GetGPR or GetFPR on a register whose slot pointer is null stops with
\* a checked fatal error and returns no value
C22_InaccessibleIsFatal == AskedInaccessible => job.outcome = "fatal"

\* it does in a debug build
C22_FatalInDebugBuild == (AskedInaccessible /\ job.kIsDebugBuild) => job.outcome = "fatal"

\* a register number that is none is fatal in every build, and a register
\* with a slot gives the value in the slot
C22_OtherReads ==
  (job.op = "Context" /\ job.call # "none" /\ ~AskedInaccessible) =>
    IF job.reg >= kNumberOfGpuRegisters
      THEN job.outcome = "fatal"
      ELSE /\ job.outcome = "returned"
           /\ job.value = SlotValue(IF job.call = "GetGPR" THEN job.gprs_[job.reg]
                                                          ELSE job.fprs_[job.reg])

\* without the DCHECK the null pointer is read: a value comes back
C22_ReleaseBuildReturns ==
  /\ AskedInaccessible
  /\ ~job.kIsDebugBuild
  /\ job.call = "GetGPR"
  /\ job.reg = 8
  /\ job.outcome = "returned"

(***************************************************************************)
(* Heap reference poisoning.  The first parameter of Extub is the          *)
(* compile-time switch RISCV64_VARIANTS_THEAD.                             *)
(***************************************************************************)
extu(rd, rs1, uimm6_1, uimm6_2) == EmitI6(uimm6_1, uimm6_2, rs1, 3, rd, 11)

Extub(thead, rt, rs, pos, size) ==
  IF thead
    THEN <<extu(rt, rs, pos + size - 1, pos)>>
    ELSE Srli(rt, rs, pos) \o Slli(rt, rt, 64 - size) \o Srli(rt, rt, 64 - size)

PoisonHeapReference(thead, dst, src) ==
  <<Sub(dst, "ZERO", src)>> \o Extub(thead, dst, dst, 0, 32)

\* the negation followed by addiw; thead plays no part
UnpoisonHeapReference(thead, reg) ==
  <<Sub(reg, "ZERO", reg), Addiw(reg, reg, 0)>>

\* null, the lowest and highest addresses of either half of the 32-bit space
\* and two in between, as pairs of 16-bit limbs
HeapReferences ==
  {BvFromLimbs(<<l[1], l[2], 0, 0>>) :
     l \in {<<0, 0>>, <<8, 0>>, <<22136, 4660>>, <<65528, 32767>>,
            <<0, 32768>>, <<0, 36864>>, <<65528, 65535>>}}

InitPoison ==
  /\ mem = NoMem
  /\ code = <<>>
  /\ ip = 1
  /\ AsmIdle
  /\ CcIdle
  /\ \E thead \in BOOLEAN, ref \in HeapReferences, src \in {"A0", "A1"}, dst \in {"A0", "A1"} :
       /\ regs = [JunkRegs EXCEPT ![src] = ref]
       /\ job = [op |-> "Poison", status |-> "new", stage |-> "poison", thead |-> thead,
                 ref |-> ref, src |-> src, dst |-> dst, poisoned |-> BvZero]

DoPoisonHeapReference ==
  /\ job.op = "Poison"
  /\ job.status = "new"
  /\ code' = code \o PoisonHeapReference(job.thead, job.dst, job.src)
  /\ job' = [job EXCEPT !.status = "emitted"]
  /\ UNCHANGED <<regs, mem, ip>>
  /\ UNCHANGED <<asmVars, ccVars>>

\* the poisoned reference is what is unpoisoned
DoUnpoisonHeapReference ==
  /\ job.op = "Poison"
  /\ job.status = "done"
  /\ job.stage = "poison"
  /\ code' = code \o UnpoisonHeapReference(job.thead, job.dst)
  /\ job' = [job EXCEPT !.status = "emitted", !.stage = "unpoison",
                        !.poisoned = regs[job.dst]]
  /\ UNCHANGED <<regs, mem, ip>>
  /\ UNCHANGED <<asmVars, ccVars>>

NextPoison ==
  \/ DoPoisonHeapReference
  \/ DoUnpoisonHeapReference
  \/ ExecStep

SpecPoison == InitPoison /\ [][NextPoison]_vars

PoisonRoundTripDone == job.op = "Poison" /\ job.stage = "unpoison" /\ job.status = "done"

\* C23: UnpoisonHeapReference applied to the result of PoisonHeapReference
\* leaves the 32-bit reference, zero-extended, in the 64-bit register
C23_PoisonRoundTrip == PoisonRoundTripDone => regs[job.dst] = job.ref

\* the poisoned reference is the 32-bit negation, zero-extended
C23_PoisonedIsNegation ==
  (job.op = "Poison" /\ job.stage = "poison" /\ job.status = "done") =>
    regs[job.dst] = BvZext32(BvSub(BvZero, job.ref))

\* the round trip leaves the reference sign-extended from bit 31: it is the
\* reference exactly for the references below 2^31
C23_RoundTripSignExtends == PoisonRoundTripDone => regs[job.dst] = BvSext32(job.ref)

\* 0x90000000 comes back as 0xFFFFFFFF90000000
C23_HighReferenceSignExtended ==
  /\ PoisonRoundTripDone
  /\ job.ref = BvFromLimbs(<<0, 36864, 0, 0>>)
  /\ job.poisoned = BvFromLimbs(<<0, 28672, 0, 0>>)
  /\ regs[job.dst] = BvFromLimbs(<<0, 36864, 65535, 65535>>)

(***************************************************************************)
(* The location of a bound label while branches are promoted.              *)
(***************************************************************************)
BoundLabels == {l \in DOMAIN labels : labels[l].state = "bound"}

C24_AlignedLiteralLabel ==
  \A l \in BoundLabels :
    labels[l].moved # 0 =>
      /\ \E k \in DOMAIN literals_ : literals_[k].size = 8 /\ literals_[k].label = l
      /\ phase \in {"promoted", "finalized", "fatal"}
      /\ GetLabelLocation(branches_, labels, l)
           = labels[l].bound_pc + GrowthBefore(labels[l].bound_pc, Len(branches_)) - 4

Muhh(rd, rs, rt) ==
  Slli("TMP2", rs, 32) \o Slli("T6", rt, 32) \o <<Mul(rd, "TMP2", "T6"), Srai(rd, rd, 32)>>

\* 32-bit values, sign-extended: 0, 1, 3, 2^16, 2^31 - 1, -2^31, -1
MuhhValues ==
  {BvSext32(BvFromLimbs(<<l[1], l[2], 0, 0>>)) :
     l \in {<<0, 0>>, <<1, 0>>, <<3, 0>>, <<0, 1>>, <<65535, 32767>>,
            <<0, 32768>>, <<65535, 65535>>}}

InitMuhh ==
  /\ mem = NoMem
  /\ code = <<>>
  /\ ip = 1
  /\ AsmIdle
  /\ CcIdle
  /\ \E x \in MuhhValues, y \in MuhhValues, rd \in {"A0", "A1", "AT"} :
       /\ regs = [JunkRegs EXCEPT !["A0"] = x, !["A1"] = y]
       /\ job = [op |-> "Muhh", status |-> "new", rd |-> rd, rs |-> "A0", rt |-> "A1",
                 x |-> x, y |-> y]

DoMuhh ==
  /\ job.op = "Muhh"
  /\ job.status = "new"
  /\ code' = code \o Muhh(job.rd, job.rs, job.rt)
  /\ job' = [job EXCEPT !.status = "emitted"]
  /\ UNCHANGED <<regs, mem, ip>>
  /\ UNCHANGED <<asmVars, ccVars>>

NextMuhh == DoMuhh \/ ExecStep

SpecMuhh == InitMuhh /\ [][NextMuhh]_vars

MuhhDone == job.op = "Muhh" /\ job.status = "done"

\* the 64-bit signed product of two sign-extended 32-bit values is exact in
\* 64 bits; its upper 32 bits, sign-extended
UpperHalfOfProduct(x, y) == BvShra(BvMul(x, y), 32)

\* C25: Muhh(rd, rs, rt) leaves in rd the sign-extended upper 32 bits of the
\* 64-bit signed product of the 32-bit values in rs and rt
C25_MuhhIsUpperHalf == MuhhDone => regs[job.rd] = UpperHalfOfProduct(job.x, job.y)

\* rd is zero whatever the operands: the product of the two shifted
\* operands has no bit below bit 64
C25_MuhhIsZero == MuhhDone => regs[job.rd] = BvZero

\* 2^16 times 2^16: the upper half is 1, rd holds 0
C25_UpperHalfLost ==
  /\ MuhhDone
  /\ job.x = BvFromLimbs(<<0, 1, 0, 0>>)
  /\ job.y = job.x
  /\ UpperHalfOfProduct(job.x, job.y) = BvFromNat(1)
  /\ regs[job.rd] = BvZero

(***************************************************************************)
(* AdjustBaseAndOffset: the address reached through the adjusted pair.     *)
(***************************************************************************)
\* offsets on every path: those that fit, the simple adjustment on both
\* sides, the lui/add path with and without the carry out of the low 12
\* bits and with the extra addi, and both ends of int32_t
AdjustOffsets ==
  {0, 4, 2040, 2044, 2048, 4080, 4084, 6140, 305419896, 2147481592, 2147481596,
   2147481600, 2147483644,
   -4, -2048, -2052, -4080, -4084, -305419896, -2147483647 - 1}

AdjustBases == {BvFromLimbs(<<4096, 0, 0, 0>>), BvFromLimbs(<<65528, 65535, 127, 0>>)}

InitAdjust ==
  /\ mem = NoMem
  /\ code = <<>>
  /\ ip = 1
  /\ AsmIdle
  /\ CcIdle
  /\ \E base \in {"SP", "A0"}, value \in AdjustBases, offset \in AdjustOffsets,
        is_doubleword \in BOOLEAN :
       /\ regs = [JunkRegs EXCEPT ![base] = value]
       /\ job = [op |-> "AdjustBaseAndOffset", status |-> "new", base |-> base,
                 value |-> value, offset |-> offset, is_doubleword |-> is_doubleword,
                 new_base |-> base, new_offset |-> offset]

DoAdjustBaseAndOffset ==
  /\ job.op = "AdjustBaseAndOffset"
  /\ job.status = "new"
  /\ LET adj == AdjustBaseAndOffset(job.base, job.offset, job.is_doubleword)
     IN /\ code' = code \o adj.code
        /\ job' = [job EXCEPT !.status = IF adj.code = <<>> THEN "done" ELSE "emitted",
                              !.new_base = adj.base,
                              !.new_offset = adj.offset]
  /\ UNCHANGED <<regs, mem, ip>>
  /\ UNCHANGED <<asmVars, ccVars>>

NextAdjust == DoAdjustBaseAndOffset \/ ExecStep

SpecAdjust == InitAdjust /\ [][NextAdjust]_vars

AdjustDone == job.op = "AdjustBaseAndOffset" /\ job.status = "done"

\* the 64-bit address a load or store forms from a base and a 12-bit offset
AddressOf(base_value, offset) == BvAdd(base_value, BvFromInt32(offset))

AdjustedAddress == AddressOf(RegGet(regs, job.new_base), job.new_offset)

OriginalAddress == AddressOf(job.value, job.offset)

\* C26: for every base other than AT and every int32_t offset, the new base
\* plus the new offset is the 64-bit address original base plus original offset
C26_AddressKept == AdjustDone => AdjustedAddress = OriginalAddress

\* the address is kept for every offset below 0x7FFFF800
C26_AddressKeptBelowWrap ==
  (AdjustDone /\ job.offset < 2147481600) => AdjustedAddress = OriginalAddress

\* from 0x7FFFF800 on lui gets 0x80000 and sign-extends it: the address is 2^32 lower
C26_HighOffsetWraps ==
  (AdjustDone /\ job.offset >= 2147481600)
    => BvAdd(AdjustedAddress, BvFromLimbs(<<0, 0, 1, 0>>)) = OriginalAddress

\* the three CHECKs at the end of the function hold
C26_ChecksHold ==
  LET two_accesses == job.is_doubleword /\ job.offset % 8 # 0
  IN AdjustDone =>
       /\ IsInt12(job.new_offset)
       /\ two_accesses => IsInt12(job.new_offset + 4)
       /\ job.new_offset % 8 = job.offset % 8

\* sd to SP + 0x7FFFF800: AT = SP - 2^31, the access is 4 GiB below
C26_WrappedAddress ==
  /\ AdjustDone
  /\ job.offset = 2147481600
  /\ job.new_base = "AT"
  /\ job.new_offset = -2048
  /\ AdjustedAddress # OriginalAddress

\* the lui/add path with the extra addi keeps the address
C26_KeptWithBump ==
  /\ AdjustDone
  /\ job.offset = 6140
  /\ job.is_doubleword
  /\ Len(code) = 3
  /\ AdjustedAddress = OriginalAddress

(***************************************************************************)
(* Termination of the loop of PromoteBranches.                             *)
(***************************************************************************)
LongBranchesOf(bs) == {k \in DOMAIN bs : IsLong(bs[k])}

ShortBranchesOf(bs) == DOMAIN bs \ LongBranchesOf(bs)

\* the pass after which the loop ends
PassEnds == phase = "promoting" /\ phase' = "promoted"

\* C27: every pass of the loop of PromoteBranches that reports a change turns at
\* least one short branch into a long one, a long branch never changes its type
\* again, and the pass that ends the loop promotes nothing; the short branches are
\* a strictly decreasing measure, so the loop has at most one pass more than there
\* are short branches
C27_PassPromotesOrEnds ==
  [][/\ (phase = "promoting" /\ phase' = "promoting") =>
          Cardinality(ShortBranchesOf(branches_')) < Cardinality(ShortBranchesOf(branches_))
     /\ \A k \in LongBranchesOf(branches_) :
          k \in DOMAIN branches_' /\ branches_'[k].type = branches_[k].type
     /\ PassEnds => \A k \in DOMAIN branches_ : branches_'[k].type = branches_[k].type]_vars

\* a second pass is due: one branch has been promoted by the pass before, and its
\* growth has pushed the target of a short branch out of range
C27_Witness ==
  /\ phase = "promoting"
  /\ \E i, j \in DOMAIN branches_ :
       /\ Promoted(i)
       /\ ~IsLong(branches_[j])
       /\ PromoteIfNeeded(branches_[j]).delta > 0

(***************************************************************************)
(* BuildFrame and RemoveFrame: where the callee saves are spilled and      *)
(* where they are reloaded from.                                           *)
(***************************************************************************)
FLd(rd, rs1, offset)  == EmitI(offset, rs1, 3, rd, 7)

FSd(rs2, rs1, offset) == EmitS(offset, rs2, rs1, 3, 39)

StoreFpuToOffset(type, reg, base, offset) ==
  LET adj == AdjustBaseAndOffset(base, offset, type = "kStoreDoubleword")
  IN adj.code \o << CASE type = "kStoreDoubleword" -> FSd(reg, adj.base, adj.offset) >>

LoadFpuFromOffset(type, reg, base, offset) ==
  LET adj == AdjustBaseAndOffset(base, offset, type = "kLoadDoubleword")
  IN adj.code \o << CASE type = "kLoadDoubleword" -> FLd(reg, adj.base, adj.offset) >>

IncreaseFrameSize(adjust) == Addiu64("SP", "SP", -adjust, "AT")

DecreaseFrameSize(adjust) == Addiu64("SP", "SP", adjust, "AT")

Jr(rs) == Jalr("ZERO", rs, 0)

Nop == Addi("ZERO", "ZERO", 0)

\* the floating-point callee saves: FS0 .. FS11
IsFpuCalleeSave(reg) == \E i \in 1..12 : kCalleeSaveRegisters[i] = reg

\* the loop of BuildFrame from index i down; stack_offset is lowered before the
\* register is looked at, for RA as well
RECURSIVE SpillFrom(_, _, _)
SpillFrom(callee_save_regs, i, stack_offset) ==
  IF i = 0 THEN <<>>
  ELSE LET reg == callee_save_regs[i]
           so == stack_offset - kFramePointerSize
       IN (IF IsFpuCalleeSave(reg) THEN StoreFpuToOffset("kStoreDoubleword", reg, "SP", so)
           ELSE IF reg = "RA" THEN <<>>
           ELSE StoreToOffset("kStoreDoubleword", reg, "SP", so))
          \o SpillFrom(callee_save_regs, i - 1, so)

\* method_reg is "none" for no register
BuildFrameCode(frame_size, method_reg, callee_save_regs) ==
  IncreaseFrameSize(frame_size)
  \o (IF Len(callee_save_regs) > 0
        THEN StoreToOffset("kStoreDoubleword", "RA", "SP", frame_size - kFramePointerSize)
             \o SpillFrom(callee_save_regs, Len(callee_save_regs),
                          frame_size - kFramePointerSize)
        ELSE <<>>)
  \o (IF method_reg # "none" THEN StoreToOffset("kStoreDoubleword", method_reg, "SP", 0)
      ELSE <<>>)

\* the loop of RemoveFrame from index i up, and the offset it ends with; the
\* continue for RA skips the increment
RECURSIVE UnspillFrom(_, _, _)
UnspillFrom(callee_save_regs, i, stack_offset) ==
  IF i > Len(callee_save_regs) THEN [code |-> <<>>, stack_offset |-> stack_offset]
  ELSE LET reg == callee_save_regs[i]
       IN IF ~IsFpuCalleeSave(reg) /\ reg = "RA"
            THEN UnspillFrom(callee_save_regs, i + 1, stack_offset)
          ELSE LET rest == UnspillFrom(callee_save_regs, i + 1,
                                       stack_offset + kFramePointerSize)
                   load == IF IsFpuCalleeSave(reg)
                             THEN LoadFpuFromOffset("kLoadDoubleword", reg, "SP", stack_offset)
                             ELSE LoadFromOffset("kLoadDoubleword", reg, "SP", stack_offset)
               IN [code |-> load \o rest.code, stack_offset |-> rest.stack_offset]

RemoveFrameCode(frame_size, callee_save_regs) ==
  LET n == Len(callee_save_regs)
      top == frame_size - kFramePointerSize
      start == IF n > 1 THEN top - n * kFramePointerSize ELSE top
      unspill == UnspillFrom(callee_save_regs, 1, start)
  IN (IF n > 0
        THEN unspill.code \o LoadFromOffset("kLoadDoubleword", "RA", "SP", unspill.stack_offset)
        ELSE <<>>)
     \o DecreaseFrameSize(frame_size)
     \o <<Jr("RA"), Nop>>

\* register lists: every list of up to three different registers out of RA, S0,
\* S2 and FS0, and the list of the JNI calling convention
MaxCalleeSaves == 3

SmallCalleeSaveLists ==
  {s \in UNION {[1..n -> {"RA", "S0", "S2", "FS0"}] : n \in 0..MaxCalleeSaves} :
     \A i, j \in DOMAIN s : i # j => s[i] # s[j]}

FrameInputs ==
  {[frame_size |-> f, callee_save_regs |-> s] : f \in {48, 64}, s \in SmallCalleeSaveLists}
  \cup {[frame_size |-> f, callee_save_regs |-> kCalleeSaveRegisters] : f \in {208, 224}}

InitFrames ==
  /\ regs = NoMem
  /\ mem = NoMem
  /\ code = <<>>
  /\ ip = 1
  /\ AsmIdle
  /\ CcIdle
  /\ \E in \in FrameInputs, method_reg \in {"none", "A0"} :
       job = [op |-> "Frame", status |-> "new", frame_size |-> in.frame_size,
              method_reg |-> method_reg, callee_save_regs |-> in.callee_save_regs]

DoBuildFrame ==
  /\ job.op = "Frame"
  /\ job.status = "new"
  /\ code' = code \o BuildFrameCode(job.frame_size, job.method_reg, job.callee_save_regs)
  /\ job' = [job EXCEPT !.status = "built"]
  /\ UNCHANGED <<regs, mem, ip>>
  /\ UNCHANGED <<asmVars, ccVars>>

DoRemoveFrame ==
  /\ job.op = "Frame"
  /\ job.status = "built"
  /\ code' = code \o RemoveFrameCode(job.frame_size, job.callee_save_regs)
  /\ job' = [job EXCEPT !.status = "removed"]
  /\ UNCHANGED <<regs, mem, ip>>
  /\ UNCHANGED <<asmVars, ccVars>>

NextFrame == DoBuildFrame \/ DoRemoveFrame

SpecFrame == InitFrames /\ [][NextFrame]_vars

FrameRemoved == job.op = "Frame" /\ job.status = "removed"

\* the offsets from SP of the emitted doubleword stores of a register (sd, fsd)
StoreOffsets(reg) ==
  {SignExtend(code[k].imm11_5 * 32 + code[k].imm4_0, 12) :
     k \in {j \in DOMAIN code : /\ code[j].opcode \in {35, 39}
                                /\ code[j].rs2 = reg
                                /\ code[j].rs1 = "SP"}}

\* the offsets from SP of the emitted doubleword loads of a register (ld, fld)
LoadOffsets(reg) ==
  {SignExtend(code[k].imm12, 12) :
     k \in {j \in DOMAIN code : /\ code[j].opcode \in {3, 7}
                                /\ code[j].rd = reg
                                /\ code[j].rs1 = "SP"}}

SavedRegisters == {job.callee_save_regs[i] : i \in DOMAIN job.callee_save_regs} \cup {"RA"}

\* C28: for every frame size and every callee-save register list, RemoveFrame
\* reloads each callee save and the return address from the stack offset at which
\* BuildFrame stored it
C28_ReloadedFromWhereStored ==
  (FrameRemoved /\ job.callee_save_regs # <<>>) =>
    \A reg \in SavedRegisters :
      /\ Cardinality(StoreOffsets(reg)) = 1
      /\ LoadOffsets(reg) = StoreOffsets(reg)

\* the lists the calling convention returns: RA alone, or no RA and more than
\* one register
ConventionList(s) ==
  \/ s = kCriticalCalleeSaveRegisters
  \/ Len(s) > 1 /\ \A i \in DOMAIN s : s[i] # "RA"

\* the offsets agree for the lists of the calling convention
C28_ConventionListsReloaded ==
  (FrameRemoved /\ ConventionList(job.callee_save_regs)) =>
    \A reg \in SavedRegisters : LoadOffsets(reg) = StoreOffsets(reg)

\* for every other list they do not
C28_OtherListsMisplaced ==
  (FrameRemoved /\ job.callee_save_regs # <<>> /\ ~ConventionList(job.callee_save_regs)) =>
    \E reg \in SavedRegisters : LoadOffsets(reg) # StoreOffsets(reg)

\* one register other than RA: S0 is stored at 32 and reloaded from 40, where RA
\* is stored; RA is reloaded from 48, above the frame
C28_SingleRegisterMisplaced ==
  /\ FrameRemoved
  /\ job.callee_save_regs = <<"S0">>
  /\ job.frame_size = 48
  /\ StoreOffsets("S0") = {32} /\ LoadOffsets("S0") = {40}
  /\ StoreOffsets("RA") = {40} /\ LoadOffsets("RA") = {48}

\* the list of the JNI calling convention, reloaded from where it was stored
C28_JniListReloaded ==
  /\ FrameRemoved
  /\ job.callee_save_regs = kCalleeSaveRegisters
  /\ \A reg \in SavedRegisters : LoadOffsets(reg) = StoreOffsets(reg)
  /\ StoreOffsets("RA") = {job.frame_size - 8}
  /\ StoreOffsets("FS0") = {job.frame_size - 8 * 23}

(***************************************************************************)
(* Copy between two frame offsets.                                         *)
(***************************************************************************)
\* Copy(FrameOffset dest, FrameOffset src, ManagedRegister mscratch, size_t size);
\* size is 4 or 8
Copy(dest, src, scratch, size) ==
  IF size = 4
    THEN LoadFromOffset("kLoadWord", scratch, "SP", src)
         \o StoreToOffset("kStoreDoubleword", scratch, "SP", dest)
    ELSE LoadFromOffset("kLoadDoubleword", scratch, "SP", src)
         \o StoreToOffset("kStoreDoubleword", scratch, "SP", dest)

CopyOffsets == {0, 4, 8, 16, 20, 32}

\* the words of the frame: offsets 0 to 44
CopyFrameWords == {FrameAddress(4 * k) : k \in 0..11}

\* the word to copy: a positive and a negative 32-bit value
CopiedWords == {WordFromLimbs(<<4660, 22136>>), WordFromLimbs(<<4660, 39030>>)}

\* every other word of the frame holds a value of its own
CopyFrame(src, word) ==
  [a \in CopyFrameWords |-> IF a = FrameAddress(src) THEN word
                            ELSE WordFromLimbs(<<a, 21845>>)]

InitCopy ==
  /\ code = <<>>
  /\ ip = 1
  /\ AsmIdle
  /\ CcIdle
  /\ \E dest \in CopyOffsets, src \in CopyOffsets, scratch \in {"T6", "A0"},
        size \in {4, 8}, word \in CopiedWords :
       /\ mem = CopyFrame(src, word)
       /\ regs = [JunkRegs EXCEPT !["SP"] = StackPointer]
       /\ job = [op |-> "Copy", status |-> "new", dest |-> dest, src |-> src,
                 scratch |-> scratch, size |-> size, before |-> CopyFrame(src, word)]

DoCopy ==
  /\ job.op = "Copy"
  /\ job.status = "new"
  /\ code' = code \o Copy(job.dest, job.src, job.scratch, job.size)
  /\ job' = [job EXCEPT !.status = "emitted"]
  /\ UNCHANGED <<regs, mem, ip>>
  /\ UNCHANGED <<asmVars, ccVars>>

NextCopy == DoCopy \/ ExecStep

SpecCopy == InitCopy /\ [][NextCopy]_vars

CopyDone(size) == job.op = "Copy" /\ job.status = "done" /\ job.size = size

\* the 32 copies of the sign bit of a word
SignFill(w) == MkWord(LAMBDA i : w[32])

\* C30: a Copy between two frame offsets with size 4 changes exactly the 4 bytes
\* at the destination offset and leaves every other stack byte unchanged
C30_CopyWordChangesOnlyDest ==
  CopyDone(4) =>
    /\ mem[FrameAddress(job.dest)] = job.before[FrameAddress(job.src)]
    /\ \A a \in CopyFrameWords : a # FrameAddress(job.dest) => mem[a] = job.before[a]

\* a Copy of size 4 writes 8 bytes: the word, and its sign in the 4 bytes above
C30_CopyWordWritesDoubleword ==
  CopyDone(4) =>
    /\ mem[FrameAddress(job.dest)] = job.before[FrameAddress(job.src)]
    /\ mem[FrameAddress(job.dest) + 4] = SignFill(job.before[FrameAddress(job.src)])
    /\ \A a \in CopyFrameWords :
         a \notin {FrameAddress(job.dest), FrameAddress(job.dest) + 4} => mem[a] = job.before[a]

\* a Copy of size 8 changes the 8 bytes at the destination and nothing else
C30_CopyDoubleword ==
  CopyDone(8) =>
    /\ mem[FrameAddress(job.dest)] = job.before[FrameAddress(job.src)]
    /\ mem[FrameAddress(job.dest) + 4] = job.before[FrameAddress(job.src) + 4]
    /\ \A a \in CopyFrameWords :
         a \notin {FrameAddress(job.dest), FrameAddress(job.dest) + 4} => mem[a] = job.before[a]

\* the word at offset 32 copied to offset 16: the word at offset 20 is lost
C30_NeighbourOverwritten ==
  /\ CopyDone(4)
  /\ job.dest = 16
  /\ job.src = 32
  /\ mem[FrameAddress(16)] = job.before[FrameAddress(32)]
  /\ job.before[FrameAddress(20)] = WordFromLimbs(<<FrameAddress(20), 21845>>)
  /\ mem[FrameAddress(20)] \in {WordZero, SignFill(WordFromLimbs(<<0, 32768>>))}

(***************************************************************************)
(* The locations of the parameters of one prototype: the iterator visits   *)
(* them in order, the location of each is asked for and remembered.        *)
(***************************************************************************)
InitParams ==
  /\ regs = NoMem
  /\ mem = NoMem
  /\ code = <<>>
  /\ ip = 1
  /\ AsmIdle
  /\ \E k \in Conventions, num_fp \in 0..MaxFpArgs, num_int \in 0..MaxIntArgs :
       LET c == NewConvention(k, "V", num_fp, num_int, "end")
       IN \E cur \in ParamKinds(c, 0, 0), d \in Displacements(c) :
            /\ cc = [c EXCEPT !.cur = cur]
            /\ job = [op |-> "Params", displacement_ |-> d, itr_slots_ |-> 0,
                      placed |-> FALSE, fatal |-> FALSE, loc |-> FrameLocation(0),
                      registers |-> {}, offsets |-> {}]

\* IsCurrentParamInRegister() ? CurrentParamRegister() : CurrentParamStackOffset()
AssignParam ==
  /\ job.op = "Params"
  /\ cc.cur # "end"
  /\ ~job.placed
  /\ LET is_fp == IsCurrentParamAFloatOrDouble(cc)
         r == IF cc.conv = "managed"
                THEN ManagedCurrentParamRegister(cc.itr_args_, cc.itr_float_and_doubles_, is_fp)
                ELSE JniCurrentParamRegister(cc.itr_args_, cc.itr_float_and_doubles_, is_fp)
         s == IF cc.conv = "managed"
                THEN ManagedCurrentParamStackOffset(job.displacement_, cc.itr_args_,
                                                    cc.itr_float_and_doubles_, job.itr_slots_,
                                                    is_fp)
                ELSE JniCurrentParamStackOffset(cc, job.displacement_, cc.itr_args_,
                                                cc.itr_float_and_doubles_, is_fp)
     IN job' = IF CurrentParamInRegister
                 THEN [job EXCEPT !.placed = TRUE, !.fatal = r.fatal,
                                  !.loc = RegisterLocation(r.reg)]
                 ELSE [job EXCEPT !.placed = TRUE, !.fatal = s.fatal,
                                  !.loc = FrameLocation(s.offset)]
  /\ UNCHANGED <<regs, mem, code, ip, cc>>
  /\ UNCHANGED asmVars

\* Next(): the location of the parameter left behind is remembered
NextAssigned ==
  /\ job.op = "Params"
  /\ HasNext(cc)
  /\ job.placed
  /\ ~job.fatal
  /\ LET is_fp == IsCurrentParamAFloatOrDouble(cc)
         fp == cc.itr_float_and_doubles_ + (IF is_fp THEN 1 ELSE 0)
     IN /\ \E cur \in ParamKinds(cc, cc.itr_args_ + 1, fp) :
             cc' = [cc EXCEPT !.itr_args_ = cc.itr_args_ + 1,
                              !.itr_float_and_doubles_ = fp,
                              !.cur = cur]
        /\ job' = [job EXCEPT !.itr_slots_ = job.itr_slots_ + (IF is_fp THEN 2 ELSE 1),
                              !.placed = FALSE,
                              !.loc = FrameLocation(0),
                              !.registers = IF job.loc.is_register
                                              THEN job.registers \cup {job.loc.reg}
                                              ELSE job.registers,
                              !.offsets = IF job.loc.is_register
                                            THEN job.offsets
                                            ELSE job.offsets \cup {job.loc.offset}]
  /\ UNCHANGED <<regs, mem, code, ip>>
  /\ UNCHANGED asmVars

NextParams == AssignParam \/ NextAssigned

SpecParams == InitParams /\ [][NextParams]_vars

ParamAssigned == job.op = "Params" /\ job.placed /\ ~job.fatal

\* C29: within one prototype, the parameters being visited in order, no two
\* parameters get the same argument register and no two stack parameters get the
\* same stack offset
C29_NoLocationTwice ==
  ParamAssigned =>
    IF job.loc.is_register THEN job.loc.reg \notin job.registers
    ELSE job.loc.offset \notin job.offsets

\* no CHECK of the accessors fails on the way
C29_NoCheckFails == job.op = "Params" => ~job.fatal

\* the method register of the managed convention is no parameter's register
C29_MethodRegisterKept ==
  (ParamAssigned /\ cc.conv = "managed" /\ job.loc.is_register) => job.loc.reg # MethodRegister

\* a stack parameter after two others, the floating-point registers being full
\* and a floating-point parameter having gone to the last integer register
C29_Witness ==
  /\ ParamAssigned
  /\ ~job.loc.is_register
  /\ Cardinality(job.offsets) >= 2
  /\ {"FA7", "A7"} \subseteq job.registers
  /\ job.loc.offset \notin job.offsets

=============================================================================
